---- MODULE Spec2Model ----
(***************************************************************************)
(* A model of the agent orchestration core of ollama-agent-cli:            *)
(*   - the argument decoder   (OllamaAgent.safeJsonParse and helpers),     *)
(*   - the transport          (OllamaClient.chat / chatStream),            *)
(*   - the conversation log   (OllamaAgent.summarizeContext),              *)
(*   - the agent loop         (OllamaAgent.processUserMessage[Stream]).    *)
(* A text is a sequence of one-character strings.                          *)
(***************************************************************************)
EXTENDS Integers, Sequences, FiniteSets, TLC

VARIABLES
    \* ---- argument decoder (one safeJsonParse call) ----
    raw,        \* the jsonString argument
    dpc,        \* position inside safeJsonParse
    dval,       \* the value returned (meaningful when dpc = "returned")
    dstages,    \* the stages that ran, in order
    \* ---- transport (OllamaClient) ----
    tpc,              \* position of the chat / chatStream call in progress
    payload,          \* requestPayload of the call in progress
    retryCount,       \* retryCount
    requests,         \* POSTs issued by the call in progress
    delays,           \* the setTimeout delays of the call in progress, in ms
    thrown,           \* the Error the call threw
    response,         \* response.data returned by chat
    chunkCount,       \* chunkCount of the response stream being read
    yielded,          \* fragments chatStream yielded in this call
    lastErrorDetails, \* this.lastErrorDetails
    currentModel,     \* this.currentModel
    attempts,         \* history: the outcome of every attempt of the call
    hist,             \* history: failed attempts and clears of the client
    \* ---- agent (OllamaAgent) ----
    messages,           \* this.messages
    apc,                \* position of the run in progress
    mode,               \* "stream": processUserMessageStream, "sync": processUserMessage
    toolRounds,         \* toolRounds
    abortController,    \* this.abortController: "null", "live" or "aborted"
    accumulatedMessage, \* accumulatedMessage
    toolCallsYielded,   \* toolCallsYielded
    toolCalls,          \* toolCalls of the round
    toolIndex,          \* position of the for loop over toolCalls
    out,                \* the chunks yielded (stream) or newEntries (sync) of the run
    idCount,            \* identifiers generated by parseToolCallsFromContent
    consumed,           \* history: the fragments merged in the round
    roundMark,          \* history: Len(out) when the round began
    compaction,         \* history: the log before and after the last compaction
    bpc,                \* BashTool.execute: the position of the call
    command,            \* BashTool.execute: its command argument
    sessionFlags,       \* ConfirmationService: the session flags
    confirmationResult, \* BashTool.execute: the answer to its confirmation request
    bashResult,         \* BashTool.execute: the ToolResult it returned
    currentDirectory,   \* BashTool.currentDirectory
    ran,                \* history: the commands handed to the shell or to chdir
    \* ---- chatStream: the response stream being read ----
    buffer,             \* buffer: the text received after the last newline
    received,           \* history: the text of the chunks received so far
    \* ---- overlapping runs of one agent ----
    overlap,            \* the runs of processUserMessageStream started on the agent
    \* ---- the input handler (useInputHandler) ----
    autoEditEnabled,    \* the autoEditEnabled state of the hook
    chatHistory,        \* the chatHistory state of the UI
    streamingEntry,     \* processUserMessage of the hook: streamingEntry is not null
    uiPos,              \* the chunks of out the hook has handled
    uiConsumed,         \* history: the content of the content chunks handled in the run
    uiEvents,           \* history: the submissions and direct commands handled
    \* ---- MCP initialization ----
    mcpInitialized,     \* mcpInitialized
    mcp,                \* the position of initializeMCP
    waiting,            \* the processUserMessage calls in waitForMCPInitialization
    \* ---- the two loops on the same responses ----
    script,             \* the number of leading responses that carry invocations
    summary             \* history: what each ended run appended, dispatched and requested

decVars == <<raw, dpc, dval, dstages>>
callVars == <<tpc, payload, retryCount, requests, delays, thrown, response,
              chunkCount, yielded>>
trVars == <<callVars, lastErrorDetails, currentModel>>
histVars == <<attempts, hist>>
agVars == <<messages, apc, mode, toolRounds, abortController, accumulatedMessage,
            toolCallsYielded, toolCalls, toolIndex, out, idCount>>
seenVars == <<consumed, roundMark, compaction>>
bashVars == <<bpc, command, sessionFlags, confirmationResult, bashResult,
              currentDirectory, ran>>
lineVars == <<buffer, received>>
runVars == <<overlap>>
uiVars == <<autoEditEnabled, chatHistory, streamingEntry, uiPos, uiConsumed, uiEvents>>
mcpVars == <<mcpInitialized, mcp, waiting>>
pairVars == <<script, summary>>
envVars == <<lineVars, runVars, uiVars, mcpVars, pairVars>>
vars == <<decVars, bashVars, trVars, histVars, agVars, seenVars, envVars>>

----------------------------------------------------------------------------
(* Characters *)
LB == "{"
RB == "}"
LK == "["
RK == "]"
Q == "\""
COLON == ":"
COMMA == ","
BSL == "\\"
SP == " "
LF == "\n"
TAB == "\t"
CR == "\r"
BS == "<BS>"     \* the backspace character U+0008
FF == "\f"

WS == {SP, LF, TAB, CR}
ControlChars == {LF, TAB, CR, BS, FF}
Digits == {"0", "1", "2", "3", "4", "5", "6", "7", "8", "9"}
HexDigits == Digits \cup {"a", "b", "c", "d", "e", "f", "A", "B", "C", "D", "E", "F"}

----------------------------------------------------------------------------
(* JSON values.  Every value has the same three fields so that values of    *)
(* different kinds can be compared: s is the text of a string or number,    *)
(* kv the members of an object (k, v) or the items of an array (v).         *)
JStr(s) == [t |-> "string", s |-> s, kv |-> <<>>]
JNum(s) == [t |-> "number", s |-> s, kv |-> <<>>]
JLit(name) == [t |-> name, s |-> <<>>, kv |-> <<>>]
JNull == JLit("null")
JArr(items) == [t |-> "array", s |-> <<>>, kv |-> items]
JObj(kv) == [t |-> "object", s |-> <<>>, kv |-> kv]
EmptyObject == JObj(<<>>)

ObjHas(o, k) == \E n \in 1..Len(o.kv) : o.kv[n].k = k
ObjGet(o, k) == o.kv[CHOOSE n \in 1..Len(o.kv) : o.kv[n].k = k].v
\* result[key] = value: an existing property is overwritten in place
ObjPut(kv, k, v) ==
    IF \E n \in 1..Len(kv) : kv[n].k = k
    THEN [n \in 1..Len(kv) |-> IF kv[n].k = k THEN [k |-> k, v |-> v] ELSE kv[n]]
    ELSE Append(kv, [k |-> k, v |-> v])

----------------------------------------------------------------------------
(* JSON.parse (ECMA-404 grammar) *)
Fail == [ok |-> FALSE, v |-> JNull, i |-> 0]
Good(v, i) == [ok |-> TRUE, v |-> v, i |-> i]

RECURSIVE SkipWs(_, _)
SkipWs(s, i) == IF i <= Len(s) /\ s[i] \in WS THEN SkipWs(s, i + 1) ELSE i

RECURSIVE SkipDigits(_, _)
SkipDigits(s, i) == IF i <= Len(s) /\ s[i] \in Digits THEN SkipDigits(s, i + 1) ELSE i

At(s, i, c) == i <= Len(s) /\ s[i] = c
Matches(s, i, w) == i + Len(w) - 1 <= Len(s) /\ SubSeq(s, i, i + Len(w) - 1) = w

Unescape(c) ==
    CASE c = "n" -> LF
      [] c = "t" -> TAB
      [] c = "r" -> CR
      [] c = "b" -> BS
      [] c = "f" -> FF
      [] OTHER -> c          \* quote, backslash, slash
SimpleEscapes == {Q, BSL, "/", "b", "f", "n", "r", "t"}

\* the characters of a string literal after its opening quote
RECURSIVE StrBody(_, _, _)
StrBody(s, j, acc) ==
    IF j > Len(s) THEN Fail
    ELSE IF s[j] = Q THEN Good(JStr(acc), j + 1)
    ELSE IF s[j] = BSL THEN
        IF j + 1 > Len(s) THEN Fail
        ELSE IF s[j + 1] \in SimpleEscapes
        THEN StrBody(s, j + 2, Append(acc, Unescape(s[j + 1])))
        ELSE IF s[j + 1] = "u" /\ j + 5 <= Len(s)
                /\ \A k \in (j + 2)..(j + 5) : s[k] \in HexDigits
        THEN StrBody(s, j + 6,
                     Append(acc, "\\u" \o s[j + 2] \o s[j + 3] \o s[j + 4] \o s[j + 5]))
        ELSE Fail
    ELSE IF s[j] \in ControlChars THEN Fail
    ELSE StrBody(s, j + 1, Append(acc, s[j]))

\* -? (0 | [1-9][0-9]*) (. [0-9]+)? ([eE] [+-]? [0-9]+)?
ParseNumber(s, i) ==
    LET a == IF At(s, i, "-") THEN i + 1 ELSE i
        b == IF At(s, a, "0") THEN a + 1 ELSE SkipDigits(s, a)
        c == IF At(s, b, ".") THEN SkipDigits(s, b + 1) ELSE b
        x == IF At(s, c, "e") \/ At(s, c, "E")
             THEN (IF At(s, c + 1, "+") \/ At(s, c + 1, "-") THEN c + 2 ELSE c + 1)
             ELSE c
        d == IF x > c THEN SkipDigits(s, x) ELSE c
    IN  IF b = a THEN Fail
        ELSE IF At(s, b, ".") /\ c = b + 1 THEN Fail
        ELSE IF x > c /\ d = x THEN Fail
        ELSE Good(JNum(SubSeq(s, i, d - 1)), d)

RECURSIVE ParseValue(_, _), ValueAt(_, _), ObjectAt(_, _), ArrayAt(_, _, _),
          ParseMembers(_, _, _), MemberKey(_, _, _), MemberColon(_, _, _, _),
          MemberValue(_, _, _, _), MemberNext(_, _, _),
          ParseElements(_, _, _), ElementValue(_, _, _), ElementNext(_, _, _)
ParseValue(s, i0) == ValueAt(s, SkipWs(s, i0))
ValueAt(s, i) ==
    IF i > Len(s) THEN Fail
    ELSE IF s[i] = LB THEN ObjectAt(s, SkipWs(s, i + 1))
    ELSE IF s[i] = LK THEN ArrayAt(s, i + 1, SkipWs(s, i + 1))
    ELSE IF s[i] = Q THEN StrBody(s, i + 1, <<>>)
    ELSE IF s[i] \in Digits \cup {"-"} THEN ParseNumber(s, i)
    ELSE IF Matches(s, i, <<"n", "u", "l", "l">>) THEN Good(JNull, i + 4)
    ELSE IF Matches(s, i, <<"t", "r", "u", "e">>) THEN Good(JLit("true"), i + 4)
    ELSE IF Matches(s, i, <<"f", "a", "l", "s", "e">>) THEN Good(JLit("false"), i + 5)
    ELSE Fail
\* after "{" and white space
ObjectAt(s, j) ==
    IF At(s, j, RB) THEN Good(JObj(<<>>), j + 1) ELSE ParseMembers(s, j, <<>>)
\* after "[": j is the next position, w the position after white space
ArrayAt(s, j, w) ==
    IF At(s, w, RK) THEN Good(JArr(<<>>), w + 1) ELSE ParseElements(s, j, <<>>)

\* a member "key" : value is expected at j
ParseMembers(s, j, acc) ==
    IF At(s, j, Q) THEN MemberKey(s, acc, StrBody(s, j + 1, <<>>)) ELSE Fail
MemberKey(s, acc, k) ==
    IF k.ok THEN MemberColon(s, acc, k, SkipWs(s, k.i)) ELSE Fail
MemberColon(s, acc, k, c) ==
    IF At(s, c, COLON) THEN MemberValue(s, acc, k, ParseValue(s, c + 1)) ELSE Fail
MemberValue(s, acc, k, v) ==
    IF v.ok THEN MemberNext(s, ObjPut(acc, k.v.s, v.v), SkipWs(s, v.i)) ELSE Fail
MemberNext(s, acc, e) ==
    IF At(s, e, RB) THEN Good(JObj(acc), e + 1)
    ELSE IF At(s, e, COMMA) THEN ParseMembers(s, SkipWs(s, e + 1), acc)
    ELSE Fail

\* an array item is expected at (or after the white space at) j
ParseElements(s, j, acc) == ElementValue(s, acc, ParseValue(s, j))
ElementValue(s, acc, v) ==
    IF v.ok THEN ElementNext(s, Append(acc, [k |-> <<>>, v |-> v.v]), SkipWs(s, v.i))
    ELSE Fail
ElementNext(s, acc, e) ==
    IF At(s, e, RK) THEN Good(JArr(acc), e + 1)
    ELSE IF At(s, e, COMMA) THEN ParseElements(s, e + 1, acc)
    ELSE Fail

\* JSON.parse(s): [ok |-> FALSE] stands for the SyntaxError it throws
WholeText(s, r) ==
    IF r.ok /\ SkipWs(s, r.i) = Len(s) + 1 THEN [ok |-> TRUE, v |-> r.v]
    ELSE [ok |-> FALSE, v |-> JNull]
JsonParse(s) == WholeText(s, ParseValue(s, 1))

----------------------------------------------------------------------------
(* Text helpers used by the regular expressions of the decoder *)
RegexWS == WS \cup {FF}      \* \s

RECURSIVE SkipSpace(_, _)
SkipSpace(s, i) == IF i <= Len(s) /\ s[i] \in RegexWS THEN SkipSpace(s, i + 1) ELSE i

\* the least index >= i holding a quote, 0 when there is none
NextQuote(s, i) ==
    IF \E n \in i..Len(s) : s[n] = Q
    THEN CHOOSE n \in i..Len(s) : s[n] = Q /\ \A m \in i..(n - 1) : s[m] # Q
    ELSE 0

\* String.prototype.trim
Trim(s) ==
    LET keep == {n \in 1..Len(s) : s[n] \notin RegexWS} IN
    IF keep = {} THEN <<>>
    ELSE SubSeq(s, CHOOSE n \in keep : \A m \in keep : n <= m,
                   CHOOSE n \in keep : \A m \in keep : n >= m)

StartsWith(s, c) == Len(s) > 0 /\ s[1] = c
EndsWith(s, c) == Len(s) > 0 /\ s[Len(s)] = c

\* fixedJson.match(/\{.*\}/s): from the first "{" to the last "}" after it
BraceSpan(s) ==
    LET opens == {n \in 1..Len(s) : s[n] = LB}
        first == CHOOSE n \in opens : \A m \in opens : n <= m
        closes == {n \in 1..Len(s) : s[n] = RB /\ n > first}
        last == CHOOSE n \in closes : \A m \in closes : n >= m
    IN  IF opens = {} \/ closes = {} THEN [ok |-> FALSE, s |-> <<>>]
        ELSE [ok |-> TRUE, s |-> SubSeq(s, first, last)]

\* value.replace(/(?<!\\)"/g, '\\"')
RECURSIVE EscapeQuotes(_, _)
EscapeQuotes(v, n) ==
    IF n > Len(v) THEN <<>>
    ELSE (IF v[n] = Q /\ ~(n > 1 /\ v[n - 1] = BSL) THEN <<BSL, Q>> ELSE <<v[n]>>)
         \o EscapeQuotes(v, n + 1)

\* m.replace(v, e) with a string pattern: the first occurrence only
ReplaceFirst(m, v, e) ==
    LET at == {n \in 1..(Len(m) - Len(v) + 1) : SubSeq(m, n, n + Len(v) - 1) = v} IN
    IF at = {} THEN m
    ELSE LET n == CHOOSE a \in at : \A b \in at : a <= b
         IN  SubSeq(m, 1, n - 1) \o e \o SubSeq(m, n + Len(v), Len(m))

----------------------------------------------------------------------------
(* OllamaAgent.fixJsonString *)

\* Step 1: /"([^"]*)"(\s*:\s*)"([^"]*)"/g, the value re-written with its
\* quotes escaped
RECURSIVE FixStep1(_, _)
FixStep1(s, p) ==
    IF p > Len(s) THEN <<>>
    ELSE LET k == IF At(s, p, Q) THEN NextQuote(s, p + 1) ELSE 0
             c == IF k # 0 THEN SkipSpace(s, k + 1) ELSE 0
             j == IF k # 0 /\ At(s, c, COLON) THEN SkipSpace(s, c + 1) ELSE 0
             q == IF j # 0 /\ At(s, j, Q) THEN NextQuote(s, j + 1) ELSE 0
         IN  IF q # 0
             THEN SubSeq(s, p, j) \o EscapeQuotes(SubSeq(s, j + 1, q - 1), 1) \o <<Q>>
                  \o FixStep1(s, q + 1)
             ELSE <<s[p]>> \o FixStep1(s, p + 1)

\* Step 2: /":\s*"([^"]*(?:\\.[^"]*)*)"/g, match.replace(value, escapedValue)
RECURSIVE FixStep2(_, _)
FixStep2(s, p) ==
    IF p > Len(s) THEN <<>>
    ELSE LET j == IF At(s, p, Q) /\ At(s, p + 1, COLON) THEN SkipSpace(s, p + 2) ELSE 0
             q == IF j # 0 /\ At(s, j, Q) THEN NextQuote(s, j + 1) ELSE 0
         IN  IF q # 0
             THEN ReplaceFirst(SubSeq(s, p, q), SubSeq(s, j + 1, q - 1),
                               EscapeQuotes(SubSeq(s, j + 1, q - 1), 1))
                  \o FixStep2(s, q + 1)
             ELSE <<s[p]>> \o FixStep2(s, p + 1)

\* Steps 3 and 4: /(":\s*"[^"]*)<ctl>([^"]*")/g -> '$1\\<esc>$2'.  The first
\* [^"]* is greedy, so it is the last <ctl> before the closing quote that is
\* replaced, and the scan resumes after that quote.
RECURSIVE FixControl(_, _, _, _)
FixControl(s, p, ctl, esc) ==
    IF p > Len(s) THEN <<>>
    ELSE LET j == IF At(s, p, Q) /\ At(s, p + 1, COLON) THEN SkipSpace(s, p + 2) ELSE 0
             q == IF j # 0 /\ At(s, j, Q) THEN NextQuote(s, j + 1) ELSE 0
             at == IF q # 0 THEN {n \in (j + 1)..(q - 1) : s[n] = ctl} ELSE {}
         IN  IF at # {}
             THEN LET m == CHOOSE a \in at : \A b \in at : a >= b
                  IN  SubSeq(s, p, m - 1) \o <<BSL, esc>> \o SubSeq(s, m + 1, q)
                      \o FixControl(s, q + 1, ctl, esc)
             ELSE <<s[p]>> \o FixControl(s, p + 1, ctl, esc)

\* Step 5: /(?<!\\)\\(?!["\\/bfnrt])/g -> two backslashes
RECURSIVE FixBackslash(_, _)
FixBackslash(s, n) ==
    IF n > Len(s) THEN <<>>
    ELSE (IF s[n] = BSL /\ ~(n > 1 /\ s[n - 1] = BSL)
             /\ ~(n < Len(s) /\ s[n + 1] \in SimpleEscapes)
          THEN <<BSL, BSL>> ELSE <<s[n]>>)
         \o FixBackslash(s, n + 1)

fixJsonString(s) ==
    FixBackslash(
        FixControl(
            FixControl(
                FixControl(FixStep2(FixStep1(s, 1), 1), 1, LF, "n"),
                1, TAB, "t"),
            1, CR, "r"),
        1)

----------------------------------------------------------------------------
(* OllamaAgent.extractArgumentsManually *)
NoMatch == [ok |-> FALSE, key |-> <<>>, val |-> JNull, end |-> 0]

\* the end of the longest run [^,}\s]+ starting at j (j - 1 when it is empty)
RECURSIVE BareEnd(_, _)
BareEnd(s, j) ==
    IF j <= Len(s) /\ s[j] \notin (RegexWS \cup {COMMA, RB}) THEN BareEnd(s, j + 1) ELSE j - 1

\* the value of a match: k closes the key, the value starts at j, q closes a
\* quoted value (0 when there is none), e ends a bare value, parsed by JSON.parse
\* and kept as a string when that throws
KeyValueMatch(s, p, k, j, q, e, bare) ==
    IF q # 0
    THEN [ok |-> TRUE, key |-> SubSeq(s, p + 1, k - 1),
          val |-> JStr(SubSeq(s, j + 1, q - 1)), end |-> q]
    ELSE IF e >= j
    THEN [ok |-> TRUE, key |-> SubSeq(s, p + 1, k - 1),
          val |-> (IF bare.ok THEN bare.v ELSE JStr(SubSeq(s, j, e))),
          end |-> e]
    ELSE NoMatch
KeyValueFrom(s, p, k, j) ==
    KeyValueMatch(s, p, k, j, IF At(s, j, Q) THEN NextQuote(s, j + 1) ELSE 0,
                  BareEnd(s, j), JsonParse(SubSeq(s, j, BareEnd(s, j))))
KeyColon(s, p, k, c) ==
    IF At(s, c, COLON) THEN KeyValueFrom(s, p, k, SkipSpace(s, c + 1)) ELSE NoMatch
KeyClosed(s, p, k) ==
    IF k > p + 1 THEN KeyColon(s, p, k, SkipSpace(s, k + 1)) ELSE NoMatch

\* one match of /"([^"]+)"\s*:\s*(?:"([^"]*)"|([^,}\s]+))/ starting at p
KeyValueAt(s, p) ==
    IF At(s, p, Q) THEN KeyClosed(s, p, NextQuote(s, p + 1)) ELSE NoMatch

\* while ((match = keyValuePattern.exec(jsonString)) !== null) result[key] = ...
RECURSIVE KeyValueScan(_, _, _), KeyValueStep(_, _, _, _)
KeyValueScan(s, p, res) ==
    IF p > Len(s) THEN res ELSE KeyValueStep(s, p, res, KeyValueAt(s, p))
KeyValueStep(s, p, res, match) ==
    IF match.ok
    THEN KeyValueScan(s, match.end + 1, ObjPut(res, match.key, match.val))
    ELSE KeyValueScan(s, p + 1, res)

\* the matches of /"([^"]+)"/g
RECURSIVE QuotedTokens(_, _)
QuotedTokens(s, p) ==
    IF p > Len(s) THEN <<>>
    ELSE LET k == IF At(s, p, Q) THEN NextQuote(s, p + 1) ELSE 0 IN
        IF k > p + 1 THEN <<SubSeq(s, p + 1, k - 1)>> \o QuotedTokens(s, k + 1)
        ELSE QuotedTokens(s, p + 1)

\* for (i = 0; i < values.length; i += 2) result[values[i]] = values[i + 1]
RECURSIVE PairUp(_, _, _)
PairUp(values, i, res) ==
    IF i + 1 > Len(values) THEN res
    ELSE PairUp(values, i + 2, ObjPut(res, values[i], JStr(values[i + 1])))

\* if (Object.keys(result).length === 0) { fallback on the quoted tokens }
ManualResult(result, values) ==
    IF Len(result) = 0 /\ Len(values) >= 2 /\ Len(values) % 2 = 0
    THEN JObj(PairUp(values, 1, <<>>))
    ELSE JObj(result)

extractArgumentsManually(s) == ManualResult(KeyValueScan(s, 1, <<>>), QuotedTokens(s, 1))

----------------------------------------------------------------------------
(* OllamaAgent.safeJsonParse, stage by stage.  A stage yields               *)
(* [ok |-> FALSE] when its try block throws.                                *)
DirectParse(s) == JsonParse(s)

RepairedText(s) ==
    LET t == Trim(s)
        u == IF (~StartsWith(t, LB) \/ ~EndsWith(t, RB)) /\ BraceSpan(t).ok
             THEN BraceSpan(t).s ELSE t
    IN  fixJsonString(u)

RepairParse(s) == JsonParse(RepairedText(s))

\* extractArgumentsManually catches its own exceptions and returns {}
ManualExtract(s) == [ok |-> TRUE, v |-> extractArgumentsManually(s)]

\* the value of the first stage that does not throw
FirstOk(direct, repaired, manual) ==
    IF direct.ok THEN direct.v
    ELSE IF repaired.ok THEN repaired.v
    ELSE IF manual.ok THEN manual.v
    ELSE EmptyObject

safeJsonParse(s) ==
    IF s = <<>> THEN EmptyObject
    ELSE FirstOk(DirectParse(s), RepairParse(s), ManualExtract(s))


----------------------------------------------------------------------------
(* Messages (OllamaMessage) and tool calls (OllamaToolCall) *)
Undefined == <<"<undefined>">>      \* an absent optional text
Null == [status |-> 0]              \* a null record reference

NoToolCalls == [has |-> FALSE, items |-> <<>>]
ToolCalls(items) == [has |-> TRUE, items |-> items]
Message(role, content, calls, callId) ==
    [role |-> role, content |-> content, tool_calls |-> calls, tool_call_id |-> callId]
ToolCall(id, name, arguments) == [id |-> id, name |-> name, arguments |-> arguments]

SystemPrompt == <<"<system prompt>">>
SystemMessage == Message("system", SystemPrompt, NoToolCalls, Undefined)

\* OllamaClient.convertMessages: tool-call arguments are parsed into objects
\* ({} when they do not parse); tool_call_id is copied when truthy
ValueOrEmpty(parsed) == IF parsed.ok THEN parsed.v ELSE EmptyObject
convertToolCall(tc) ==
    [id |-> tc.id, type |-> "function", name |-> tc.name,
     arguments |-> ValueOrEmpty(JsonParse(tc.arguments))]
convertMessages(msgs) ==
    [n \in 1..Len(msgs) |->
        [role |-> msgs[n].role,
         content |-> msgs[n].content,
         tool_calls |-> [has |-> msgs[n].tool_calls.has,
                         items |-> [i \in 1..Len(msgs[n].tool_calls.items) |->
                                       convertToolCall(msgs[n].tool_calls.items[i])]],
         tool_call_id |-> IF msgs[n].tool_call_id \in {Undefined, <<>>}
                          THEN Undefined ELSE msgs[n].tool_call_id]]

----------------------------------------------------------------------------
(* JSON.stringify of a parsed value (a number keeps its source text) *)
RECURSIVE QuoteText(_, _)
QuoteText(s, n) ==
    IF n > Len(s) THEN <<>>
    ELSE (CASE s[n] = Q -> <<BSL, Q>>
            [] s[n] = BSL -> <<BSL, BSL>>
            [] s[n] = LF -> <<BSL, "n">>
            [] s[n] = TAB -> <<BSL, "t">>
            [] s[n] = CR -> <<BSL, "r">>
            [] s[n] = BS -> <<BSL, "b">>
            [] s[n] = FF -> <<BSL, "f">>
            [] OTHER -> <<s[n]>>)
         \o QuoteText(s, n + 1)

RECURSIVE JsonStringify(_), StringifyItems(_, _, _)
JsonStringify(v) ==
    CASE v.t = "string" -> <<Q>> \o QuoteText(v.s, 1) \o <<Q>>
      [] v.t = "number" -> v.s
      [] v.t = "null" -> <<"n", "u", "l", "l">>
      [] v.t = "true" -> <<"t", "r", "u", "e">>
      [] v.t = "false" -> <<"f", "a", "l", "s", "e">>
      [] v.t = "array" -> <<LK>> \o StringifyItems(v.kv, 1, FALSE) \o <<RK>>
      [] OTHER -> <<LB>> \o StringifyItems(v.kv, 1, TRUE) \o <<RB>>
StringifyItems(kv, n, keyed) ==
    IF n > Len(kv) THEN <<>>
    ELSE (IF n > 1 THEN <<COMMA>> ELSE <<>>)
         \o (IF keyed THEN <<Q>> \o QuoteText(kv[n].k, 1) \o <<Q, COLON>> ELSE <<>>)
         \o JsonStringify(kv[n].v)
         \o StringifyItems(kv, n + 1, keyed)

\* JavaScript truthiness of a parsed value
Truthy(v) ==
    CASE v.t = "string" -> v.s # <<>>
      [] v.t = "number" -> \E n \in 1..Len(v.s) :
                               /\ v.s[n] \in Digits \ {"0"}
                               /\ \A m \in 1..n : v.s[m] \notin {"e", "E"}
      [] v.t \in {"null", "false"} -> FALSE
      [] OTHER -> TRUE

----------------------------------------------------------------------------
(* OllamaAgent.messageReducer.  The accumulator and a delta hold the fields *)
(* content and tool_calls; a tool call holds id, function.name and          *)
(* function.arguments, each a text or Undefined.                            *)
EmptyAccumulator == [content |-> Undefined, tool_calls |-> NoToolCalls]
EmptyToolCall == ToolCall(Undefined, Undefined, Undefined)

ReduceTextReversed(acc, value) ==
    IF acc = Undefined THEN value
    ELSE IF value = Undefined THEN acc
    ELSE value \o acc
\* one field: set when the accumulator has none, appended when both are strings
ReduceText(acc, value) ==
    IF acc = Undefined THEN value
    ELSE IF value = Undefined THEN acc
    ELSE acc \o value

ReduceToolCall(acc, value) ==
    ToolCall(ReduceText(acc.id, value.id),
             ReduceText(acc.name, value.name),
             ReduceText(acc.arguments, value.arguments))

\* a merge that appends the elements of a fragment after those it has
ReduceArrayAppends(acc, value) == acc \o value

\* arrays merge position by position, the accumulator growing as needed
ReduceArray(acc, value) ==
    [i \in 1..(IF Len(acc) > Len(value) THEN Len(acc) ELSE Len(value)) |->
        IF i > Len(value) THEN acc[i]
        ELSE ReduceToolCall(IF i > Len(acc) THEN EmptyToolCall ELSE acc[i], value[i])]

messageReducer(previous, delta) ==
    [content |-> ReduceText(previous.content, delta.content),
     tool_calls |->
        IF ~previous.tool_calls.has THEN delta.tool_calls
        ELSE IF ~delta.tool_calls.has THEN previous.tool_calls
        ELSE ToolCalls(ReduceArray(previous.tool_calls.items, delta.tool_calls.items))]

\* a test that takes any invocation for a complete one
HasAnyTool(acc) == acc.tool_calls.items # <<>>

\* accumulatedMessage.tool_calls.some(tc => tc.function?.name)
HasCompleteTool(acc) ==
    \E i \in 1..Len(acc.tool_calls.items) :
        acc.tool_calls.items[i].name \notin {Undefined, <<>>}

\* accumulatedMessage.content || ""
ContentOrEmpty(acc) == IF acc.content = Undefined THEN <<>> ELSE acc.content

----------------------------------------------------------------------------
(* OllamaAgent.parseToolCallsFromContent *)
BT == "<BT>"      \* the backtick
Fence == <<BT, BT, BT>>
FenceOpen == Fence \o <<"j", "s", "o", "n">>
NameKey == <<"n", "a", "m", "e">>
ArgumentsKey == <<"a", "r", "g", "u", "m", "e", "n", "t", "s">>

DigitChar == <<"0", "1", "2", "3", "4", "5", "6", "7", "8", "9">>
\* call_<Date.now()>_<Math.random()...>: the n-th identifier generated
FreshId(n) == <<"call_", DigitChar[((n \div 10) % 10) + 1], DigitChar[(n % 10) + 1]>>

\* if (parsed.name && parsed.arguments): reading a property of null throws
LooksLikeToolCall(v) ==
    /\ v.t = "object"
    /\ ObjHas(v, NameKey) /\ Truthy(ObjGet(v, NameKey))
    /\ ObjHas(v, ArgumentsKey) /\ Truthy(ObjGet(v, ArgumentsKey))

ToolCallFrom(v, n) ==
    ToolCall(FreshId(n),
             IF ObjGet(v, NameKey).t = "string" THEN ObjGet(v, NameKey).s
             ELSE <<"<not a string>">> \o JsonStringify(ObjGet(v, NameKey)),
             IF ObjGet(v, ArgumentsKey).t = "string" THEN ObjGet(v, ArgumentsKey).s
             ELSE JsonStringify(ObjGet(v, ArgumentsKey)))

\* one match of /<fence>json\s*\n([\s\S]*?)\n<fence>/ starting at p: \s* gives back
\* white space until a newline follows it, the body is the shortest possible
BlockAt(s, p) ==
    LET w == SkipSpace(s, p + 7)
        ends(n) == {t \in (n + 1)..Len(s) : s[t] = LF /\ Matches(s, t + 1, Fence)}
        heads == {n \in (p + 7)..(w - 1) : s[n] = LF /\ ends(n) # {}}
        n == CHOOSE a \in heads : \A b \in heads : a >= b
        t == CHOOSE a \in ends(n) : \A b \in ends(n) : a <= b
    IN  IF ~Matches(s, p, FenceOpen) \/ heads = {}
        THEN [ok |-> FALSE, body |-> <<>>, end |-> 0]
        ELSE [ok |-> TRUE, body |-> SubSeq(s, n + 1, t - 1), end |-> t + 3]

\* for (const match of matches): the tool calls of the fenced blocks
RECURSIVE BlockScan(_, _, _, _), BlockStep(_, _, _, _, _), BlockParsed(_, _, _, _, _)
BlockScan(s, p, found, n) ==
    IF p > Len(s) THEN found ELSE BlockStep(s, p, found, n, BlockAt(s, p))
BlockStep(s, p, found, n, block) ==
    IF block.ok THEN BlockParsed(s, block.end + 1, found, n, JsonParse(Trim(block.body)))
    ELSE BlockScan(s, p + 1, found, n)
BlockParsed(s, p, found, n, parsed) ==
    IF parsed.ok /\ LooksLikeToolCall(parsed.v)
    THEN BlockScan(s, p, Append(found, ToolCallFrom(parsed.v, n + Len(found))), n)
    ELSE BlockScan(s, p, found, n)

\* n: the number of identifiers generated so far
\* if (toolCalls.length === 0) { try the whole content as one JSON tool call }
BlocksOrDirect(blocks, parsed, n) ==
    IF blocks # <<>> THEN blocks
    ELSE IF parsed.ok /\ LooksLikeToolCall(parsed.v) THEN <<ToolCallFrom(parsed.v, n)>>
    ELSE <<>>
parseToolCallsFromContent(content, n) ==
    IF content \in {Undefined, <<>>} THEN <<>>
    ELSE BlocksOrDirect(BlockScan(content, 1, <<>>, n), JsonParse(content), n)

DetectToolCallsBoth(acc, n) ==
    acc.tool_calls.items \o parseToolCallsFromContent(acc.content, n)
\* let toolCalls = message.tool_calls;
\* if (!toolCalls || toolCalls.length === 0) toolCalls = parseToolCallsFromContent(...)
DetectToolCalls(acc, n) ==
    IF acc.tool_calls.has /\ acc.tool_calls.items # <<>> THEN acc.tool_calls.items
    ELSE parseToolCallsFromContent(acc.content, n)

----------------------------------------------------------------------------
(* OllamaAgent.executeTool.  ext is the ToolResult of the tool behind the   *)
(* name (text editor, shell, search, MCP server), were it called.           *)
ToolResult(success, output, error) ==
    [success |-> success, output |-> output, error |-> error]
Failure(error) == ToolResult(FALSE, Undefined, error)

BashName == <<"b", "a", "s", "h">>
ViewFileName == <<"v", "i", "e", "w", "_", "f", "i", "l", "e">>
PathKey == <<"p", "a", "t", "h">>
IsMcpName(name) == Len(name) >= 5 /\ SubSeq(name, 1, 5) = <<"m", "c", "p", "_", "_">>
\* a name that is no string has no startsWith
IsNoString(name) == name = Undefined \/ (name # <<>> /\ name[1] = "<not a string>")
ArgumentsText(tc) == IF tc.arguments = Undefined THEN <<>> ELSE tc.arguments

CreateFileName == <<"c", "r", "e", "a", "t", "e", "_", "f", "i", "l", "e">>
StrReplaceName ==
    <<"s", "t", "r", "_", "r", "e", "p", "l", "a", "c", "e", "_", "e", "d", "i", "t", "o", "r">>
CreateTodoName ==
    <<"c", "r", "e", "a", "t", "e", "_", "t", "o", "d", "o", "_", "l", "i", "s", "t">>
UpdateTodoName ==
    <<"u", "p", "d", "a", "t", "e", "_", "t", "o", "d", "o", "_", "l", "i", "s", "t">>
SearchName == <<"s", "e", "a", "r", "c", "h">>
QueryKey == <<"q", "u", "e", "r", "y">>
\* the cases of the switch
BuiltInNames ==
    {ViewFileName, CreateFileName, StrReplaceName, BashName, CreateTodoName,
     UpdateTodoName, SearchName}

\* !args || !args[key] || typeof args[key] !== 'string' || args[key].trim() === ''
InvalidText(args, key) ==
    \/ args.t # "object"
    \/ ~ObjHas(args, key)
    \/ ObjGet(args, key).t # "string"
    \/ Trim(ObjGet(args, key).s) = <<>>

\* where the switch over the tool name takes the invocation: the method of the
\* tool that is called, "invalid" when the validation of the case returns,
\* "raised" when a property read throws into the catch block, "none" for the
\* default case without the mcp__ prefix
RouteEverythingOut(tc, args) ==
    IF tc.name \in BuiltInNames THEN tc.name
    ELSE IF IsNoString(tc.name) THEN <<"raised">>
    ELSE <<"mcpManager.callTool">>
ToolTarget(tc, args) ==
    IF tc.name \in {ViewFileName, SearchName}
    THEN (IF InvalidText(args, IF tc.name = ViewFileName THEN PathKey ELSE QueryKey)
          THEN <<"invalid">> ELSE tc.name)
    ELSE IF tc.name \in BuiltInNames
    THEN (IF args.t = "null" THEN <<"raised">> ELSE tc.name)
    ELSE IF IsNoString(tc.name)
    THEN <<"raised">>
    ELSE IF IsMcpName(tc.name)
    THEN (IF JsonParse(ArgumentsText(tc)).ok
          THEN <<"mcpManager.callTool">> ELSE <<"raised in executeMCPTool">>)
    ELSE <<"none">>

\* the ToolResult of the case taken, ext being the result of the tool called
DispatchTool(tc, args, ext) ==
    LET target == ToolTarget(tc, args) IN
    CASE target = <<"invalid">> -> Failure(<<"Invalid parameter">>)
      [] target = <<"raised">> -> Failure(<<"Tool execution error">>)
      [] target = <<"raised in executeMCPTool">> -> Failure(<<"MCP tool execution error">>)
      [] target = <<"none">> -> Failure(<<"Unknown tool: ">> \o tc.name)
      [] OTHER -> ext

executeTool(tc, ext) == DispatchTool(tc, safeJsonParse(ArgumentsText(tc)), ext)

\* content: result.success ? result.output || "Success" : result.error || "Error"
ToolMessageHidesError(tc, result) ==
    Message("tool",
            IF result.output \in {Undefined, <<>>} THEN <<"Success">> ELSE result.output,
            NoToolCalls, tc.id)
ToolMessage(tc, result) ==
    Message("tool",
            IF result.success
            THEN (IF result.output \in {Undefined, <<>>} THEN <<"Success">> ELSE result.output)
            ELSE (IF result.error \in {Undefined, <<>>} THEN <<"Error">> ELSE result.error),
            NoToolCalls, tc.id)

----------------------------------------------------------------------------
(* Token counting and OllamaAgent.summarizeContext *)
LongText == <<"<long text>">>      \* one placeholder for a text of many tokens
LongTextTokens == 16000
TokenThreshold == 15000

\* what substring leaves of a long text: its first characters, up to the cut
CutText == "<long text, cut>"

\* one token for each character, many for a long text or what is left of one
TextTokens(s) ==
    Len(s)
      + (LongTextTokens - 1) * Cardinality({n \in 1..Len(s) : s[n] = LongText[1]})
      + 999 * Cardinality({n \in 1..Len(s) : s[n] = CutText})

RECURSIVE countMessageTokens(_, _)
countMessageTokens(msgs, n) ==
    IF n > Len(msgs) THEN 0
    ELSE 3 + TextTokens(msgs[n].content) + countMessageTokens(msgs, n + 1)

\* the index of the first element of s that alone is longer than any cut,
\* Len(s) + 1 when there is none
LongAt(s) ==
    IF \E n \in 1..Len(s) : s[n] \in {LongText[1], CutText}
    THEN CHOOSE n \in 1..Len(s) :
            /\ s[n] \in {LongText[1], CutText}
            /\ \A m \in 1..(n - 1) : s[m] \notin {LongText[1], CutText}
    ELSE Len(s) + 1

\* s.substring(0, k): the cut falls inside the first long element, if any
Substring(s, k) ==
    IF LongAt(s) <= Len(s) /\ LongAt(s) <= k
    THEN Append(SubSeq(s, 1, LongAt(s) - 1), CutText)
    ELSE SubSeq(s, 1, IF Len(s) < k THEN Len(s) ELSE k)

\* the line of one summarized message
DigestLine(m) ==
    CASE m.role = "user" ->
            <<"U", "s", "e", "r", ":", " ">> \o m.content
      [] m.role = "assistant" ->
            <<"A", "s", "s", "i", "s", "t", "a", "n", "t", ":", " ">>
                \o m.content
      [] m.role = "tool" ->
            <<"T", "o", "o", "l", " ", "r", "e", "s", "u", "l", "t", ":", " ">>
                \o Substring(m.content, 100) \o <<".", ".", ".">>
      [] OTHER -> <<>>

RECURSIVE JoinLines(_, _)
JoinLines(msgs, n) ==
    IF n > Len(msgs) THEN <<>>
    ELSE IF DigestLine(msgs[n]) = <<>> THEN JoinLines(msgs, n + 1)
    ELSE IF n = Len(msgs) THEN DigestLine(msgs[n])
    ELSE DigestLine(msgs[n]) \o <<LF>> \o JoinLines(msgs, n + 1)

\* the try block throws when a summarized tool content is no value that
\* substring or JSON.stringify accepts
DigestThrows(middle) ==
    \E n \in 1..Len(middle) : middle[n].role = "tool" /\ middle[n].content = Undefined

SummaryMessage(middle) ==
    Message("assistant",
            <<"[Context Summary] Previous conversation included:", LF>>
                \o Substring(JoinLines(middle, 1), 1000) \o <<".", ".", ".">>,
            NoToolCalls, Undefined)

LastOf(msgs, k) == SubSeq(msgs, Len(msgs) - k + 1, Len(msgs))

summarizeContextDropsSystem(msgs) ==
    IF Len(msgs) <= 10 THEN msgs
    ELSE <<SummaryMessage(SubSeq(msgs, 1, Len(msgs) - 6))>> \o LastOf(msgs, 6)
summarizeContextDropsSummary(msgs) ==
    IF Len(msgs) <= 10 THEN msgs
    ELSE <<msgs[1]>> \o LastOf(msgs, 6)
summarizeContextShiftsWindow(msgs) ==
    IF Len(msgs) <= 10 THEN msgs
    ELSE <<msgs[1], SummaryMessage(SubSeq(msgs, 2, Len(msgs) - 7))>>
             \o SubSeq(msgs, Len(msgs) - 6, Len(msgs) - 1)
summarizeContext(msgs) ==
    IF Len(msgs) <= 10 THEN msgs
    ELSE LET systemMessage == msgs[1]
             recentMessages == LastOf(msgs, 6)
             messagesToSummarize == SubSeq(msgs, 2, Len(msgs) - 6)
         IN  IF messagesToSummarize = <<>> THEN msgs
             ELSE IF DigestThrows(messagesToSummarize)
             THEN <<systemMessage>> \o recentMessages
             ELSE <<systemMessage, SummaryMessage(messagesToSummarize)>> \o recentMessages

compactIfNeededAlways(msgs) == summarizeContext(msgs)
\* if (inputTokens > 15000) await this.summarizeContext()
compactIfNeeded(msgs) ==
    IF countMessageTokens(msgs, 1) > TokenThreshold THEN summarizeContext(msgs) ELSE msgs

----------------------------------------------------------------------------
(* Transport: OllamaClient.chat and OllamaClient.chatStream.                *)
(* An attempt's outcome is [status, code, body]: status 0 when the error    *)
(* has no response, status 200 for a success.                               *)
maxRetries == 3

NoBody == <<>>
StatusText(n) ==
    <<DigitChar[((n \div 100) % 10) + 1], DigitChar[((n \div 10) % 10) + 1],
      DigitChar[(n % 10) + 1]>>
HttpError(n) ==
    [status |-> n, code |-> "ERR_BAD_RESPONSE", body |-> <<"body ">> \o StatusText(n)]
NetError(c) == [status |-> 0, code |-> c, body |-> NoBody]
Success(body) == [status |-> 200, code |-> "OK", body |-> body]

Conditions ==
    {HttpError(n) : n \in {404, 429, 500, 503, 504, 505}}
        \cup {NetError(c) : c \in {"ECONNREFUSED", "ETIMEDOUT", "ECONNRESET"}}
StreamConditions == {NetError(c) : c \in {"ETIMEDOUT", "ECONNRESET"}}

\* error.message
MessageOf(e) == <<"message ">> \o StatusText(e.status) \o <<" ", e.code>>

NoError == [api |-> "none", message |-> <<>>, status |-> 0, data |-> NoBody]
NoResponse == <<>>
NoPayload == [model |-> "", messages |-> <<>>, stream |-> FALSE]

\* isRetryable
isRetryableDrops429(e) ==
    \/ e.status >= 500 /\ e.status <= 504
    \/ e.code = "ECONNREFUSED"
    \/ e.code = "ETIMEDOUT"
isRetryable(e) ==
    \/ e.status = 429
    \/ e.status >= 500 /\ e.status <= 504
    \/ e.code = "ECONNREFUSED"
    \/ e.code = "ETIMEDOUT"

\* if (retryCount <= maxRetries && isRetryable)      (retryCount already incremented)
CanRetryOneFewer(count, e) == count < maxRetries /\ isRetryable(e)
CanRetry(count, e) == count <= maxRetries /\ isRetryable(e)

\* Math.pow(2, retryCount - 1) * 1000
BackoffDelayLinear(count) == count * 1000
BackoffDelay(count) == (2 ^ (count - 1)) * 1000

\* if (error.response?.status >= 400 && error.response?.status < 500)
IsClientErrorNoUpper(e) == e.status >= 400
IsClientError(e) == e.status >= 400 /\ e.status < 500

\* the LastErrorDetails record (timestamp and headers left out)
DetailsOf(e, pl) ==
    [status |-> e.status, message |-> MessageOf(e), response |-> e.body, payload |-> pl]

\* errorMessage: chat appends the status and the response data, chatStream
\* the status only
ErrorOf(e, pl) ==
    [api |-> IF pl.stream THEN "Ollama API streaming error" ELSE "Ollama API error",
     message |-> MessageOf(e),
     status |-> e.status,
     data |-> IF pl.stream THEN NoBody ELSE e.body]

\* the prologue of chat (stream = FALSE) and chatStream (stream = TRUE)
BeginCall(strm, msgs) ==
    /\ tpc = "idle"
    /\ tpc' = "request"
    /\ payload' = [model |-> currentModel, messages |-> convertMessages(msgs),
                   stream |-> strm]
    /\ retryCount' = 0
    /\ requests' = 0
    /\ delays' = <<>>
    /\ thrown' = NoError
    /\ response' = NoResponse
    /\ chunkCount' = 0
    /\ yielded' = 0
    /\ UNCHANGED <<lastErrorDetails, currentModel>>

\* the catch block shared by both methods
HandleError(e) ==
    /\ retryCount' = retryCount + 1
    /\ lastErrorDetails' = IF IsClientError(e) THEN DetailsOf(e, payload)
                           ELSE lastErrorDetails
    /\ IF CanRetry(retryCount + 1, e)
       THEN /\ tpc' = "backoff"
            /\ delays' = Append(delays, BackoffDelay(retryCount + 1))
            /\ thrown' = thrown
       ELSE /\ tpc' = "raised"
            /\ delays' = delays
            /\ thrown' = ErrorOf(e, payload)

\* await this.client.post(...) rejects
PostFails(e) ==
    /\ tpc = "request"
    /\ requests' = requests + 1
    /\ HandleError(e)
    /\ UNCHANGED <<payload, response, chunkCount, yielded, currentModel>>

\* await this.client.post(...) resolves: chat returns response.data,
\* chatStream starts reading response.data
PostSucceeds(body) ==
    /\ tpc = "request"
    /\ requests' = requests + 1
    /\ IF payload.stream
       THEN tpc' = "stream" /\ response' = response
       ELSE tpc' = "returned" /\ response' = body
    /\ chunkCount' = 0
    /\ UNCHANGED <<payload, retryCount, delays, thrown, yielded, lastErrorDetails,
                   currentModel>>

\* await new Promise(resolve => setTimeout(resolve, delay)); continue
BackoffElapsed ==
    /\ tpc = "backoff"
    /\ tpc' = "request"
    /\ UNCHANGED <<payload, retryCount, requests, delays, thrown, response,
                   chunkCount, yielded, lastErrorDetails, currentModel>>

\* a line that parses: yield convertedChunk; if (data.done) return
StreamYield(frag) ==
    /\ tpc = "stream"
    /\ chunkCount' = chunkCount + 1
    /\ yielded' = yielded + 1
    /\ tpc' = IF frag.done THEN "returned" ELSE "stream"
    /\ UNCHANGED <<payload, retryCount, requests, delays, thrown, response,
                   lastErrorDetails, currentModel>>

\* a line that does not parse is logged and skipped
StreamSkipsLine ==
    /\ tpc = "stream"
    /\ chunkCount' = chunkCount + 1
    /\ UNCHANGED <<tpc, payload, retryCount, requests, delays, thrown, response,
                   yielded, lastErrorDetails, currentModel>>

\* the server ends the stream without a done flag: return
StreamEnds ==
    /\ tpc = "stream"
    /\ tpc' = "returned"
    /\ UNCHANGED <<payload, retryCount, requests, delays, thrown, response,
                   chunkCount, yielded, lastErrorDetails, currentModel>>

\* reading response.data throws: the same catch block handles it
StreamFails(e) ==
    /\ tpc = "stream"
    /\ HandleError(e)
    /\ UNCHANGED <<payload, requests, response, chunkCount, yielded, currentModel>>

\* the caller has taken the result (or the error) of the call
CallSettled ==
    /\ tpc \in {"returned", "raised"}
    /\ tpc' = "idle"
    /\ UNCHANGED <<payload, retryCount, requests, delays, thrown, response,
                   chunkCount, yielded, lastErrorDetails, currentModel>>

clearLastErrorDetails ==
    /\ lastErrorDetails' = Null
    /\ UNCHANGED <<callVars, currentModel>>

\* OllamaClient.setModel
setModel(m) ==
    /\ tpc = "idle"
    /\ currentModel' = m
    /\ UNCHANGED <<callVars, lastErrorDetails>>

----------------------------------------------------------------------------
(* The agent loop: OllamaAgent.processUserMessageStream (mode "stream") and *)
(* OllamaAgent.processUserMessage (mode "sync").  out holds the chunks the  *)
(* generator yielded, or the newEntries of the synchronous run.             *)
maxToolRounds == 50

NoResult == ToolResult(FALSE, Undefined, Undefined)
Chunk(type, content, calls, result) ==
    [type |-> type, content |-> content, toolCalls |-> calls, toolResult |-> result]
ContentChunk(content) == Chunk("content", content, <<>>, NoResult)
ToolCallsChunk(calls) == Chunk("tool_calls", <<>>, calls, NoResult)
ToolResultChunk(tc, result) == Chunk("tool_result", <<>>, <<tc>>, result)
TokenCountChunk == Chunk("token_count", <<>>, <<>>, NoResult)
DoneChunk == Chunk("done", <<>>, <<>>, NoResult)

LimitText == <<"Maximum tool execution rounds reached. Stopping to prevent infinite loops.">>
CancelNotice == ContentChunk(<<LF, LF, "[Operation cancelled by user]">>)
LimitNotice == ContentChunk(<<LF, LF>> \o LimitText)
ErrorText(err) == <<"Sorry, I encountered an error: ", err.api, ": ">> \o err.message
NoMessageError ==
    [api |-> "Error", message |-> <<"No response from Ollama">>, status |-> 0,
     data |-> NoBody]

UserEntry(text) == Chunk("user", text, <<>>, NoResult)
AssistantEntry(content, calls) == Chunk("assistant", content, calls, NoResult)
ToolCallEntry(tc) == Chunk("tool_call", <<"Executing...">>, <<tc>>, NoResult)

\* a response of chat without a message field
NoMessage == [content |-> Undefined, tool_calls |-> NoToolCalls, absent |-> TRUE]
ChatMessage(content, calls) == [content |-> content, tool_calls |-> calls, absent |-> FALSE]

UserMessage(text) == Message("user", text, NoToolCalls, Undefined)

\* while (toolRounds < maxToolRounds)
LoopContinuesOneMore(rounds) == rounds <= maxToolRounds
LoopContinues(rounds) == rounds < maxToolRounds

\* the locals of a round that is not running
RoundIdle ==
    /\ accumulatedMessage' = EmptyAccumulator
    /\ toolCallsYielded' = FALSE
    /\ toolCalls' = <<>>
    /\ toolIndex' = 0

StreamFinishOpen(chunks) ==
    /\ out' = out \o SubSeq(chunks, 1, Len(chunks) - 1)
    /\ apc' = "idle"
    /\ abortController' = "null"
    /\ RoundIdle
    /\ UNCHANGED <<mode, toolRounds, idCount>>
\* the generator returns after yielding chunks; finally { abortController = null }
StreamFinish(chunks) ==
    /\ out' = out \o chunks
    /\ apc' = "idle"
    /\ abortController' = "null"
    /\ RoundIdle
    /\ UNCHANGED <<mode, toolRounds, idCount>>

\* processUserMessageStream up to its first yield
SubmitStream(text) ==
    /\ apc = "idle" /\ tpc = "idle"
    /\ mode' = "stream"
    /\ abortController' = "live"
    /\ messages' = compactIfNeeded(Append(messages, UserMessage(text)))
    /\ out' = <<TokenCountChunk>>
    /\ toolRounds' = 0
    /\ apc' = "round"
    /\ RoundIdle
    /\ UNCHANGED <<idCount, trVars>>

\* the head of the while loop: the round limit, the cancellation check and
\* the start of chatStream
StreamRoundStart ==
    /\ apc = "round" /\ mode = "stream"
    /\ IF ~LoopContinues(toolRounds)
       THEN /\ StreamFinish(<<LimitNotice, DoneChunk>>)
            /\ UNCHANGED <<messages, trVars>>
       ELSE IF abortController = "aborted"
       THEN /\ StreamFinish(<<CancelNotice, DoneChunk>>)
            /\ UNCHANGED <<messages, trVars>>
       ELSE /\ BeginCall(TRUE, messages)
            /\ apc' = "streaming"
            /\ RoundIdle
            /\ UNCHANGED <<messages, mode, toolRounds, abortController, out, idCount>>

\* one iteration of for await (const chunk of stream)
ConsumeFragment(f) ==
    /\ apc = "streaming" /\ tpc = "stream"
    /\ IF abortController = "aborted"
       THEN /\ tpc' = "idle"
            /\ chunkCount' = chunkCount + 1
            /\ yielded' = yielded + 1
            /\ UNCHANGED <<payload, retryCount, requests, delays, thrown, response,
                           lastErrorDetails, currentModel>>
            /\ StreamFinish(<<CancelNotice, DoneChunk>>)
            /\ UNCHANGED messages
       ELSE /\ StreamYield(f)
            /\ accumulatedMessage' = messageReducer(accumulatedMessage, f)
            /\ LET yieldCalls ==
                       /\ ~toolCallsYielded
                       /\ accumulatedMessage'.tool_calls.items # <<>>
                       /\ HasCompleteTool(accumulatedMessage')
               IN  /\ toolCallsYielded' = (toolCallsYielded \/ yieldCalls)
                   /\ out' = out
                        \o (IF yieldCalls
                            THEN <<ToolCallsChunk(accumulatedMessage'.tool_calls.items)>>
                            ELSE <<>>)
                        \o (IF f.content # <<>>
                            THEN <<ContentChunk(f.content), TokenCountChunk>>
                            ELSE <<>>)
            /\ UNCHANGED <<messages, apc, mode, toolRounds, abortController, toolCalls,
                           toolIndex, idCount>>

\* the stream is exhausted: the assistant message is appended, then either
\* the tool loop starts or the run ends
StreamReturned ==
    /\ apc = "streaming" /\ tpc = "returned"
    /\ LET calls == DetectToolCalls(accumulatedMessage, idCount) IN
       /\ messages' = Append(messages,
                             Message("assistant", ContentOrEmpty(accumulatedMessage),
                                     ToolCalls(calls), Undefined))
       /\ idCount' = IF accumulatedMessage.tool_calls.items = <<>>
                     THEN idCount + Len(calls) ELSE idCount
       /\ IF calls # <<>>
          THEN /\ toolRounds' = toolRounds + 1
               /\ out' = out \o (IF toolCallsYielded THEN <<>>
                                 ELSE <<ToolCallsChunk(calls)>>)
               /\ apc' = "tools"
               /\ toolCalls' = calls
               /\ toolIndex' = 1
               /\ UNCHANGED <<mode, abortController, accumulatedMessage,
                              toolCallsYielded>>
          ELSE /\ out' = out \o (IF toolRounds >= maxToolRounds THEN <<LimitNotice>>
                                 ELSE <<>>) \o <<DoneChunk>>
               /\ apc' = "idle"
               /\ abortController' = "null"
               /\ RoundIdle
               /\ UNCHANGED <<mode, toolRounds>>
    /\ CallSettled

StreamRaisedSilent ==
    /\ apc = "streaming" /\ tpc = "raised"
    /\ StreamFinish(IF abortController = "aborted" THEN <<CancelNotice, DoneChunk>>
                    ELSE <<DoneChunk>>)
    /\ CallSettled
    /\ UNCHANGED messages
\* chatStream threw: the catch block of the generator
StreamRaisedDropsLast ==
    /\ apc = "streaming" /\ tpc = "raised"
    /\ StreamFinish(IF abortController = "aborted" THEN <<CancelNotice, DoneChunk>>
                    ELSE <<ContentChunk(ErrorText(thrown)), DoneChunk>>)
    /\ CallSettled
    /\ messages' = SubSeq(messages, 1, Len(messages) - 1)

StreamRaised ==
    /\ apc = "streaming" /\ tpc = "raised"
    /\ StreamFinish(IF abortController = "aborted" THEN <<CancelNotice, DoneChunk>>
                    ELSE <<ContentChunk(ErrorText(thrown)), DoneChunk>>)
    /\ CallSettled
    /\ UNCHANGED messages

NextInvocationReversed(calls, index) == calls[Len(calls) + 1 - index]
\* for (const toolCall of toolCalls): the invocation of the current iteration
NextInvocation(calls, index) == calls[index]

StreamToolStepIgnoresAbort(ext) ==
    /\ apc = "tools" /\ mode = "stream"
    /\ LET toolCall == NextInvocation(toolCalls, toolIndex)
           result == executeTool(toolCall, ext)
           last == toolIndex = Len(toolCalls)
       IN  /\ messages' = Append(messages, ToolMessage(toolCall, result))
           /\ out' = out \o <<ToolResultChunk(toolCall, result)>>
                         \o (IF last THEN <<TokenCountChunk>> ELSE <<>>)
           /\ apc' = IF last THEN "round" ELSE "tools"
           /\ toolIndex' = toolIndex + 1
           /\ UNCHANGED <<mode, toolRounds, abortController, accumulatedMessage,
                          toolCallsYielded, toolCalls, idCount>>
    /\ UNCHANGED trVars

\* one iteration of for (const toolCall of toolCalls) of the generator; the
\* token count follows the last tool
StreamToolStep(ext) ==
    /\ apc = "tools" /\ mode = "stream"
    /\ IF abortController = "aborted"
       THEN StreamFinish(<<CancelNotice, DoneChunk>>) /\ UNCHANGED messages
       ELSE LET toolCall == NextInvocation(toolCalls, toolIndex)
                result == executeTool(toolCall, ext)
                last == toolIndex = Len(toolCalls)
            IN  /\ messages' = Append(messages, ToolMessage(toolCall, result))
                /\ out' = out \o <<ToolResultChunk(toolCall, result)>>
                              \o (IF last THEN <<TokenCountChunk>> ELSE <<>>)
                /\ apc' = IF last THEN "round" ELSE "tools"
                /\ toolIndex' = toolIndex + 1
                /\ UNCHANGED <<mode, toolRounds, abortController, accumulatedMessage,
                               toolCallsYielded, toolCalls, idCount>>
    /\ UNCHANGED trVars

\* OllamaAgent.abortCurrentOperation
abortCurrentOperation ==
    /\ abortController = "live"
    /\ abortController' = "aborted"
    /\ UNCHANGED <<messages, apc, mode, toolRounds, accumulatedMessage, toolCallsYielded,
                   toolCalls, toolIndex, out, idCount, trVars>>

\* ---- initializeMCP and waitForMCPInitialization ----
MaxMcpCalls == 3
McpCalls == 1..MaxMcpCalls

\* a processUserMessage call: its position in waitForMCPInitialization and
\* whether it found mcpInitialized false at least once (history)
NotCalled == [pc |-> "none", slept |-> FALSE]

\* the outcomes of loadMCPConfig(): no server, servers, an exception
ConfigOutcomes == {"empty", "servers", "raises"}

\* the constructor calls initializeMCP(), which runs to its first await
LoadConfig(outcome) ==
    /\ mcp = "load"
    /\ mcp' = CASE outcome = "empty" -> "ready"
               [] outcome = "servers" -> "connecting"
               [] OTHER -> "failed"
    /\ mcpInitialized' = (outcome # "servers")
    /\ UNCHANGED waiting

\* await initializeMCPServers() resolves
ConnectReturns ==
    /\ mcp = "connecting"
    /\ mcp' = "ready"
    /\ mcpInitialized' = TRUE
    /\ UNCHANGED waiting

ConnectRaisesBlocks ==
    /\ mcp = "connecting"
    /\ mcp' = "failed"
    /\ mcpInitialized' = mcpInitialized
    /\ UNCHANGED waiting
\* await initializeMCPServers() rejects: the catch block
ConnectRaises ==
    /\ mcp = "connecting"
    /\ mcp' = "failed"
    /\ mcpInitialized' = TRUE
    /\ UNCHANGED waiting

\* processUserMessage is called: await this.waitForMCPInitialization()
CallArrives(c) ==
    /\ mcp # "load"
    /\ waiting[c].pc = "none"
    /\ waiting' = [waiting EXCEPT ![c].pc = "check"]
    /\ UNCHANGED <<mcpInitialized, mcp>>

\* while (!this.mcpInitialized) await new Promise(r => setTimeout(r, 100))
WaitCheck(c) ==
    /\ waiting[c].pc = "check"
    /\ waiting' = IF mcpInitialized THEN [waiting EXCEPT ![c].pc = "proceeded"]
                  ELSE [waiting EXCEPT ![c].pc = "sleep", ![c].slept = TRUE]
    /\ UNCHANGED <<mcpInitialized, mcp>>

\* the 100 ms timer fires
TimerFires(c) ==
    /\ waiting[c].pc = "sleep"
    /\ waiting' = [waiting EXCEPT ![c].pc = "check"]
    /\ UNCHANGED <<mcpInitialized, mcp>>

\* ---- several runs of processUserMessageStream on one agent ----
MaxOverlapRuns == 2
MaxOverlapChecks == 2
OverlapRuns == 1..MaxOverlapRuns

\* a run: its position, the cancellation checkpoints it passed, whether
\* abortCurrentOperation was called since its last checkpoint (history) and
\* whether another run was in progress during it (history)
NotStarted == [pc |-> "none", checks |-> 0, asked |-> FALSE, shared |-> FALSE]
InProgress(r) == overlap[r].pc = "running"

\* this.abortController = new AbortController()
RunStarts(r) ==
    /\ overlap[r].pc = "none"
    /\ abortController' = "live"
    /\ LET others == \E q \in OverlapRuns : InProgress(q) IN
       overlap' = [q \in OverlapRuns |->
                      IF q = r THEN [NotStarted EXCEPT !.pc = "running", !.shared = others]
                      ELSE IF InProgress(q) THEN [overlap[q] EXCEPT !.shared = TRUE]
                      ELSE overlap[q]]

\* if (this.abortController?.signal.aborted) { yield ...; yield done; return }
\* followed by finally { this.abortController = null }
RunCheckpoint(r) ==
    /\ InProgress(r)
    /\ IF abortController = "aborted"
       THEN /\ overlap' = [overlap EXCEPT ![r].pc = "cancelled",
                                          ![r].checks = @ + 1, ![r].asked = FALSE]
            /\ abortController' = "null"
       ELSE /\ overlap' = [overlap EXCEPT ![r].checks = @ + 1, ![r].asked = FALSE]
            /\ abortController' = abortController

\* the loop ends: yield done; finally { this.abortController = null }
RunCompletes(r) ==
    /\ InProgress(r)
    /\ overlap' = [overlap EXCEPT ![r].pc = "finished"]
    /\ abortController' = "null"

\* abortCurrentOperation called while runs are in progress:
\* if (this.abortController) this.abortController.abort()
AbortCalled ==
    /\ \E r \in OverlapRuns : InProgress(r)
    /\ abortController' = IF abortController = "null" THEN "null" ELSE "aborted"
    /\ overlap' = [r \in OverlapRuns |->
                      IF InProgress(r) THEN [overlap[r] EXCEPT !.asked = TRUE]
                      ELSE overlap[r]]

\* newEntries.findIndex(entry => entry.type === "tool_call" &&
\*                               entry.toolCall?.id === toolCall.id), 0 for -1
FindToolCallEntry(entries, tc) ==
    LET hits == {n \in 1..Len(entries) :
                    entries[n].type = "tool_call" /\ entries[n].toolCalls[1].id = tc.id}
    IN  IF hits = {} THEN 0 ELSE CHOOSE n \in hits : \A m \in hits : n <= m

\* the entry of the tool call becomes its tool_result entry
UpdateEntry(entries, tc, result) ==
    LET n == FindToolCallEntry(entries, tc) IN
    IF n = 0 THEN entries
    ELSE [entries EXCEPT ![n] =
            Chunk("tool_result",
                  IF result.success
                  THEN (IF result.output \in {Undefined, <<>>} THEN <<"Success">>
                        ELSE result.output)
                  ELSE (IF result.error \in {Undefined, <<>>} THEN <<"Error occurred">>
                        ELSE result.error),
                  <<entries[n].toolCalls[1]>>, result)]

\* the run ends: return newEntries, or [userEntry, errorEntry] from the catch
SyncFinish(entries) ==
    /\ out' = entries
    /\ apc' = "idle"
    /\ RoundIdle
    /\ UNCHANGED <<mode, toolRounds, abortController, idCount>>

\* a submission that carries the round counter over from the run before
SubmitSyncKeepsRounds(text) ==
    /\ apc = "idle" /\ tpc = "idle"
    /\ mode' = "sync"
    /\ messages' = Append(messages, UserMessage(text))
    /\ out' = <<UserEntry(text)>>
    /\ apc' = "chat"
    /\ RoundIdle
    /\ BeginCall(FALSE, messages')
    /\ UNCHANGED <<toolRounds, abortController, idCount>>

\* processUserMessage up to the first await of chat
SubmitSync(text) ==
    /\ apc = "idle" /\ tpc = "idle"
    /\ mode' = "sync"
    /\ messages' = Append(messages, UserMessage(text))
    /\ out' = <<UserEntry(text)>>
    /\ toolRounds' = 0
    /\ apc' = "chat"
    /\ RoundIdle
    /\ BeginCall(FALSE, messages')
    /\ UNCHANGED <<abortController, idCount>>

\* chat returned: the loop condition, then one pass of the loop body up to
\* the tool loop, or the end of the run
ChatReturned ==
    /\ apc = "chat" /\ tpc = "returned"
    /\ IF ~LoopContinues(toolRounds)
       THEN /\ SyncFinish(Append(out, AssistantEntry(LimitText, <<>>)))
            /\ UNCHANGED messages
       ELSE IF response.absent
       THEN /\ SyncFinish(<<out[1], AssistantEntry(ErrorText(NoMessageError), <<>>)>>)
            /\ UNCHANGED messages
       ELSE LET calls == DetectToolCalls(response, idCount) IN
            IF calls # <<>>
            THEN /\ toolRounds' = toolRounds + 1
                 /\ messages' = Append(messages,
                                       Message("assistant", ContentOrEmpty(response),
                                               ToolCalls(calls), Undefined))
                 /\ out' = Append(out,
                                  AssistantEntry(IF ContentOrEmpty(response) = <<>>
                                                 THEN <<"Using tools to help you...">>
                                                 ELSE response.content, calls))
                             \o [i \in 1..Len(calls) |-> ToolCallEntry(calls[i])]
                 /\ idCount' = IF response.tool_calls.items = <<>>
                               THEN idCount + Len(calls) ELSE idCount
                 /\ apc' = "tools"
                 /\ toolCalls' = calls
                 /\ toolIndex' = 1
                 /\ UNCHANGED <<mode, abortController, accumulatedMessage,
                                toolCallsYielded>>
            ELSE /\ messages' = Append(messages,
                                       Message("assistant", ContentOrEmpty(response),
                                               NoToolCalls, Undefined))
                 /\ SyncFinish(Append(out,
                        AssistantEntry(IF ContentOrEmpty(response) = <<>>
                                       THEN <<"I understand, but I don't have a specific response.">>
                                       ELSE response.content, <<>>)))
    /\ CallSettled

\* chat threw: the catch block of processUserMessage
ChatRaised ==
    /\ apc = "chat" /\ tpc = "raised"
    /\ SyncFinish(<<out[1], AssistantEntry(ErrorText(thrown), <<>>)>>)
    /\ CallSettled
    /\ UNCHANGED messages

\* one iteration of for (const toolCall of toolCalls) of processUserMessage;
\* the next chat call follows the last tool
SyncToolStep(ext) ==
    /\ apc = "tools" /\ mode = "sync"
    /\ LET toolCall == NextInvocation(toolCalls, toolIndex)
           result == executeTool(toolCall, ext)
       IN  /\ messages' = Append(messages, ToolMessage(toolCall, result))
           /\ out' = UpdateEntry(out, toolCall, result)
    /\ toolIndex' = toolIndex + 1
    /\ IF toolIndex = Len(toolCalls)
       THEN apc' = "chat" /\ BeginCall(FALSE, messages')
       ELSE apc' = "tools" /\ UNCHANGED trVars
    /\ UNCHANGED <<mode, toolRounds, abortController, accumulatedMessage,
                   toolCallsYielded, toolCalls, idCount>>

----------------------------------------------------------------------------
(* BashTool (src/tools/bash.ts).  A command is a text; the shell and the    *)
(* file system are the environment: `ran` keeps what was handed to them.    *)
UpperCase == <<"A", "B", "C", "D", "E", "F", "G", "H", "I", "J", "K", "L", "M",
               "N", "O", "P", "Q", "R", "S", "T", "U", "V", "W", "X", "Y", "Z">>
LowerCase == <<"a", "b", "c", "d", "e", "f", "g", "h", "i", "j", "k", "l", "m",
               "n", "o", "p", "q", "r", "s", "t", "u", "v", "w", "x", "y", "z">>

\* the /i flag of the patterns: letters are compared in lower case
LowerChar(c) ==
    IF \E n \in 1..26 : UpperCase[n] = c
    THEN LowerCase[CHOOSE n \in 1..26 : UpperCase[n] = c]
    ELSE c
LowerText(s) == [n \in 1..Len(s) |-> LowerChar(s[n])]

\* the word w stands in s at position i
HasAt(s, w, i) == i >= 1 /\ i + Len(w) - 1 <= Len(s) /\ SubSeq(s, i, i + Len(w) - 1) = w

\* \s* or \s+ : the positions i..(j - 1) of s hold whitespace only
SpaceRun(s, i, j) == \A n \in i..(j - 1) : s[n] \in RegexWS

\* .* : the positions i..(j - 1) of s hold no line terminator
DotRun(s, i, j) == \A n \in i..(j - 1) : s[n] \notin {LF, CR}

\* /^w\s/i and /^w\s+/i
WordSpace(s, w) == HasAt(s, w, 1) /\ Len(s) > Len(w) /\ s[Len(w) + 1] \in RegexWS

\* /^w\s+.*x/i
WordThen(s, w, x) ==
    /\ WordSpace(s, w)
    /\ \E a \in (Len(w) + 2)..(Len(s) + 1) :
          /\ SpaceRun(s, Len(w) + 1, a)
          /\ \E b \in a..Len(s) : DotRun(s, a, b) /\ HasAt(s, x, b)

\* />\s*\/dev\/(null|zero|random)/i
Devices == {<<"n", "u", "l", "l">>, <<"z", "e", "r", "o">>,
            <<"r", "a", "n", "d", "o", "m">>}
ToDevice(s) ==
    \E i \in 1..Len(s) :
        /\ s[i] = ">"
        /\ \E j \in (i + 1)..Len(s) :
              /\ SpaceRun(s, i + 1, j)
              /\ HasAt(s, <<"/", "d", "e", "v", "/">>, j)
              /\ \E d \in Devices : HasAt(s, d, j + 5)

\* /w.*\|\s*sh/i
PipedToShell(s, w) ==
    \E i \in 1..Len(s) :
        /\ HasAt(s, w, i)
        /\ \E j \in (i + Len(w))..Len(s) :
              /\ DotRun(s, i + Len(w), j)
              /\ s[j] = "|"
              /\ \E k \in (j + 1)..Len(s) :
                    SpaceRun(s, j + 1, k) /\ HasAt(s, <<"s", "h">>, k)

\* the words of the patterns /^w\s/i and /^w\s+/i
GuardedWords == {<<"s", "u", "d", "o">>, <<"d", "d">>, <<"f", "d", "i", "s", "k">>,
                 <<"f", "o", "r", "m", "a", "t">>,
                 <<"k", "i", "l", "l", "a", "l", "l">>, <<"p", "k", "i", "l", "l">>,
                 <<"s", "y", "s", "t", "e", "m", "c", "t", "l">>,
                 <<"s", "e", "r", "v", "i", "c", "e">>, <<"m", "o", "u", "n", "t">>,
                 <<"u", "m", "o", "u", "n", "t">>}

\* dangerousPatterns.some(pattern => pattern.test(command.trim()))
DangerousText(s) ==
    \/ WordThen(s, <<"r", "m">>, <<"-", "r">>)
    \/ WordThen(s, <<"r", "m">>, <<"-", "f">>)
    \/ WordThen(s, <<"c", "h", "m", "o", "d">>, <<"7", "7", "7">>)
    \/ WordThen(s, <<"d", "e", "l">>, <<"/", "s">>)
    \/ WordThen(s, <<"r", "m", "d", "i", "r">>, <<"/", "s">>)
    \/ \E w \in GuardedWords : WordSpace(s, w)
    \/ HasAt(s, <<"m", "k", "f", "s", ".">>, 1)
    \/ ToDevice(s)
    \/ PipedToShell(s, <<"c", "u", "r", "l">>)
    \/ PipedToShell(s, <<"w", "g", "e", "t">>)

isDangerousCommand(cmd) == DangerousText(LowerText(Trim(cmd)))

\* getSessionFlags(): the flags a session starts with and returns to
NoFlags == [bashCommands |-> FALSE, allOperations |-> FALSE]

NoAnswer == [confirmed |-> FALSE, feedback |-> Undefined]

BashIdle ==
    /\ bpc = "idle"
    /\ command = <<>>
    /\ sessionFlags = NoFlags
    /\ confirmationResult = NoAnswer
    /\ bashResult = NoResult
    /\ currentDirectory = <<"/">>
    /\ ran = <<>>

\* let buffer = ''
EnvIdle ==
    /\ buffer = <<>>
    /\ received = <<>>
    /\ overlap = [r \in OverlapRuns |-> NotStarted]
    /\ autoEditEnabled = FALSE
    /\ chatHistory = <<>>
    /\ streamingEntry = FALSE
    /\ uiPos = 0
    /\ uiConsumed = <<>>
    /\ uiEvents = <<>>
    /\ mcpInitialized = FALSE
    /\ mcp = "load"
    /\ waiting = [c \in McpCalls |-> NotCalled]
    /\ script = 0
    /\ summary = <<>>

\* a check that lets a dangerous command through under the bashCommands flag
RefusesUnlessAnyFlag(dangerous, flags) ==
    dangerous /\ ~flags.allOperations /\ ~flags.bashCommands

\* if (isDangerous && !sessionFlags.allOperations) return {success: false, ...}
Refuses(dangerous, flags) == dangerous /\ ~flags.allOperations

\* if (!isDangerous && !sessionFlags.bashCommands && !sessionFlags.allOperations)
AsksUser(dangerous, flags) == ~dangerous /\ ~flags.bashCommands /\ ~flags.allOperations

DangerousNotice(cmd) ==
    <<"Dangerous command detected: ", Q>> \o cmd \o <<Q, "<requires interactive mode>">>

\* command.startsWith('cd ')
IsChdir(cmd) == HasAt(cmd, <<"c", "d", " ">>, 1)

\* the lines after the checks: a directory change is done at once, any other
\* command is handed to the shell and awaited.  ok: whether chdir succeeds.
RunCommand(ok) ==
    IF IsChdir(command)
    THEN /\ ran' = Append(ran, [kind |-> "chdir", command |-> command])
         /\ currentDirectory' = IF ok THEN Trim(SubSeq(command, 4, Len(command)))
                                ELSE currentDirectory
         /\ bashResult' = IF ok
                          THEN ToolResult(TRUE, <<"Changed directory to: ">>
                                                \o currentDirectory', Undefined)
                          ELSE Failure(<<"Cannot change directory: ", "<message>">>)
         /\ bpc' = "returned"
    ELSE /\ ran' = Append(ran, [kind |-> "exec", command |-> command])
         /\ bpc' = "exec"
         /\ UNCHANGED <<currentDirectory, bashResult>>

\* bash.execute(command): the call
BashExecute(cmd) ==
    /\ bpc \in {"idle", "returned"}
    /\ bpc' = "entry"
    /\ command' = cmd
    /\ confirmationResult' = NoAnswer
    /\ UNCHANGED <<sessionFlags, bashResult, currentDirectory, ran>>

\* the body of execute up to its first await or return
BashCheck(ok) ==
    /\ bpc = "entry"
    /\ IF Refuses(isDangerousCommand(command), sessionFlags)
       THEN /\ bashResult' = Failure(DangerousNotice(command))
            /\ bpc' = "returned"
            /\ UNCHANGED <<currentDirectory, ran>>
       ELSE IF AsksUser(isDangerousCommand(command), sessionFlags)
       THEN /\ bpc' = "confirm"
            /\ UNCHANGED <<bashResult, currentDirectory, ran>>
       ELSE RunCommand(ok)
    /\ UNCHANGED <<command, sessionFlags, confirmationResult>>

\* requestConfirmation resolves with the user's answer
BashConfirmed(answer, ok) ==
    /\ bpc = "confirm"
    /\ confirmationResult' = answer
    /\ IF ~answer.confirmed
       THEN /\ bashResult' = Failure(IF answer.feedback \notin {Undefined, <<>>} THEN answer.feedback
                                     ELSE <<"Command execution cancelled by user">>)
            /\ bpc' = "returned"
            /\ UNCHANGED <<currentDirectory, ran>>
       ELSE RunCommand(ok)
    /\ UNCHANGED <<command, sessionFlags>>

\* const output = stdout + (stderr ? `\nSTDERR: ${stderr}` : '')
ExecOutput(o) ==
    LET output == Trim(o.stdout \o (IF o.stderr # <<>> THEN <<LF, "STDERR: ">> \o o.stderr
                                    ELSE <<>>)) IN
    IF output # <<>> THEN output ELSE <<"Command executed successfully (no output)">>

\* execAsync settles: with the output of the command, or with an error
BashSettled(o) ==
    /\ bpc = "exec"
    /\ bashResult' = IF o.failed
                     THEN Failure(<<"Command failed: ", "<message>">>)
                     ELSE ToolResult(TRUE, ExecOutput(o), Undefined)
    /\ bpc' = "returned"
    /\ UNCHANGED <<command, sessionFlags, confirmationResult, currentDirectory, ran>>

\* confirmationService.setSessionFlag(flag, true)
setSessionFlag(flag) ==
    /\ sessionFlags' = [sessionFlags EXCEPT ![flag] = TRUE]
    /\ UNCHANGED <<bpc, command, confirmationResult, bashResult, currentDirectory, ran>>

\* confirmationService.resetSession()
resetSession ==
    /\ sessionFlags' = NoFlags
    /\ UNCHANGED <<bpc, command, confirmationResult, bashResult, currentDirectory, ran>>

----------------------------------------------------------------------------
(* One call of safeJsonParse, one try block per step *)
Alphabet == {LB, RB, LK, RK, Q, COLON, COMMA, BSL, SP, LF,
             "a", "x", "1", "5", "n", "u", "l"}
MaxRawLen == 2
Texts(n) == UNION {[1..k -> Alphabet] : k \in 0..n}

\* longer raw argument strings: well-formed objects, valid JSON that is not
\* an object, truncated JSON, unescaped inner quotes, bare control characters
Samples ==
    { <<"n", "u", "l", "l">>,
      <<LK, "1", RK>>,
      <<Q, "x", Q>>,
      <<LB, Q, "a", Q, COLON, Q, "x", Q, RB>>,
      <<LB, Q, "a", Q, COLON, SP, "1", COMMA, Q, "x", Q, COLON, "n", "u", "l", "l", RB>>,
      <<LB, Q, "a", Q, COLON, Q, "x">>,
      <<LB, Q, "a", Q, COLON>>,
      <<LB, Q, "a", Q, COLON, Q, "x", Q, "a", Q, RB>>,
      <<LB, Q, "a", Q, COLON, Q, "x", LF, "a", Q, RB>>,
      <<LB, Q, "a", Q, COLON, Q, "x", LF, "a", LF, "x", Q, RB>>,
      <<LB, Q, "a", Q, COLON, Q, "x", BSL, "l", Q, RB>>,
      <<"x", SP, LB, Q, "a", Q, COLON, "5", RB, SP, "x">>,
      <<Q, "a", BSL, "x", Q>>,
      <<Q, "a", Q, SP, Q, "x", Q>>,
      <<Q, "a", Q, SP, Q, "x", Q, SP, Q, "l", Q>>,
      <<LB, "a", COLON, "1", RB>> }

RawInputs == Texts(MaxRawLen) \cup Samples

DecIdle ==
    /\ raw = <<>>
    /\ dpc = "idle"
    /\ dval = EmptyObject
    /\ dstages = <<>>

TrInit ==
    /\ tpc = "idle"
    /\ payload = NoPayload
    /\ retryCount = 0
    /\ requests = 0
    /\ delays = <<>>
    /\ thrown = NoError
    /\ response = NoResponse
    /\ chunkCount = 0
    /\ yielded = 0
    /\ lastErrorDetails = Null
    /\ currentModel = "qwen2.5-coder:3b"
    /\ attempts = <<>>
    /\ hist = <<>>

NoCompaction == [before |-> <<>>, after |-> <<>>, runs |-> 0]

AgInit ==
    /\ messages = <<SystemMessage>>
    /\ apc = "idle"
    /\ mode = "none"
    /\ toolRounds = 0
    /\ abortController = "null"
    /\ accumulatedMessage = EmptyAccumulator
    /\ toolCallsYielded = FALSE
    /\ toolCalls = <<>>
    /\ toolIndex = 0
    /\ out = <<>>
    /\ idCount = 0
    /\ consumed = <<>>
    /\ roundMark = 0
    /\ compaction = NoCompaction
    /\ BashIdle
    /\ EnvIdle

DecInit ==
    /\ raw \in RawInputs
    /\ dpc = "entry"
    /\ dval = EmptyObject
    /\ dstages = <<>>
    /\ TrInit
    /\ AgInit

\* if (!jsonString || typeof jsonString !== 'string') return {};
DecodeEntry ==
    /\ dpc = "entry"
    /\ IF raw = <<>>
       THEN dpc' = "returned" /\ dval' = EmptyObject
       ELSE dpc' = "direct" /\ dval' = dval
    /\ UNCHANGED <<raw, dstages, bashVars, envVars, trVars, histVars, agVars, seenVars>>

DecodeDirectFallsThrough ==
    /\ dpc = "direct"
    /\ dstages' = Append(dstages, "direct")
    /\ dpc' = "repair" /\ dval' = dval
    /\ UNCHANGED <<raw, bashVars, envVars, trVars, histVars, agVars, seenVars>>

\* try { return JSON.parse(jsonString) }
DecodeDirect ==
    /\ dpc = "direct"
    /\ dstages' = Append(dstages, "direct")
    /\ LET direct == DirectParse(raw) IN
       IF direct.ok
       THEN dpc' = "returned" /\ dval' = direct.v
       ELSE dpc' = "repair" /\ dval' = dval
    /\ UNCHANGED <<raw, bashVars, envVars, trVars, histVars, agVars, seenVars>>

\* catch { try { ... return JSON.parse(fixedJson) }
DecodeRepair ==
    /\ dpc = "repair"
    /\ dstages' = Append(dstages, "repair")
    /\ LET repaired == RepairParse(raw) IN
       IF repaired.ok
       THEN dpc' = "returned" /\ dval' = repaired.v
       ELSE dpc' = "manual" /\ dval' = dval
    /\ UNCHANGED <<raw, bashVars, envVars, trVars, histVars, agVars, seenVars>>

\* catch { try { return this.extractArgumentsManually(jsonString) }
\* catch { return {} } } }
DecodeManual ==
    /\ dpc = "manual"
    /\ dstages' = Append(dstages, "manual")
    /\ dpc' = "returned"
    /\ LET manual == ManualExtract(raw) IN
       dval' = IF manual.ok THEN manual.v ELSE EmptyObject
    /\ UNCHANGED <<raw, bashVars, envVars, trVars, histVars, agVars, seenVars>>

NextDecode ==
    \/ DecodeEntry
    \/ DecodeDirect
    \/ DecodeRepair
    \/ DecodeManual

SpecDecode == DecInit /\ [][NextDecode]_vars



----------------------------------------------------------------------------
(* A model that answers every request with tool invocations: one run, in    *)
(* either mode, with no cancellation and no failing request.                *)
CapCalls ==
    <<ToolCall(<<"c", "1">>, BashName, <<LB, RB>>),
      ToolCall(<<"c", "2">>, ViewFileName, <<LB, RB>>)>>
CapFragment == [content |-> <<>>, tool_calls |-> ToolCalls(CapCalls), done |-> TRUE]
CapResponse == ChatMessage(<<>>, ToolCalls(CapCalls))
CapResult == ToolResult(TRUE, <<"o">>, Undefined)

NextCap ==
    \/ /\ mode = "none"
       /\ SubmitStream(<<"q">>)
       /\ UNCHANGED <<decVars, envVars, bashVars, histVars, seenVars>>
    \/ /\ mode = "none"
       /\ SubmitSync(<<"q">>)
       /\ UNCHANGED <<decVars, envVars, bashVars, histVars, seenVars>>
    \/ StreamRoundStart /\ UNCHANGED <<decVars, envVars, bashVars, histVars, seenVars>>
    \/ /\ PostSucceeds(CapResponse)
       /\ UNCHANGED <<decVars, envVars, bashVars, histVars, agVars, seenVars>>
    \/ ConsumeFragment(CapFragment) /\ UNCHANGED <<decVars, envVars, bashVars, histVars, seenVars>>
    \/ StreamReturned /\ UNCHANGED <<decVars, envVars, bashVars, histVars, seenVars>>
    \/ StreamToolStep(CapResult) /\ UNCHANGED <<decVars, envVars, bashVars, histVars, seenVars>>
    \/ ChatReturned /\ UNCHANGED <<decVars, envVars, bashVars, histVars, seenVars>>
    \/ SyncToolStep(CapResult) /\ UNCHANGED <<decVars, envVars, bashVars, histVars, seenVars>>

CapInit == DecIdle /\ TrInit /\ AgInit

SpecCap == CapInit /\ [][NextCap]_vars

----------------------------------------------------------------------------
(* The agent with its transport: a user submits messages in either mode and *)
(* may cancel; the server answers as it likes, with content, invocations,   *)
(* failures; the tools succeed or fail.  runs counts the messages submitted.*)
MaxRuns == 2
MaxChunks == 2
MaxToolResponses == 1

UserTexts == {<<"q">>}
ModelCall == ToolCall(<<"c", "1">>, BashName, <<LB, RB>>)
Delta(content, calls, done) == [content |-> content, tool_calls |-> calls, done |-> done]
ContentDeltas == {Delta(<<"a">>, NoToolCalls, FALSE), Delta(<<"b">>, NoToolCalls, FALSE),
                  Delta(<<>>, NoToolCalls, TRUE)}
ToolDeltas == {Delta(<<>>, ToolCalls(<<ModelCall>>), FALSE)}
ChatResponses == {ChatMessage(<<"a">>, NoToolCalls), NoMessage}
ToolResponses == {ChatMessage(<<>>, ToolCalls(<<ModelCall>>))}
ExtResults == {ToolResult(TRUE, <<"o">>, Undefined), ToolResult(FALSE, Undefined, <<"e">>)}
RequestFailures == {HttpError(404), HttpError(503)}
ReadFailures == {NetError("ECONNRESET")}

\* the messages submitted so far
Runs == Cardinality({n \in 1..Len(messages) : messages[n].role = "user"})
\* the server may still answer with invocations in this run
MayInvoke == toolRounds < MaxToolResponses

\* the log a submission hands to the compaction test, and the log it leaves
Compacted(text, runs) ==
    [before |-> Append(messages, UserMessage(text)), after |-> messages', runs |-> runs]

Next ==
    \/ \E text \in UserTexts :
          /\ Runs < MaxRuns
          /\ SubmitStream(text)
          /\ compaction' = Compacted(text, 0)
          /\ UNCHANGED <<consumed, roundMark, decVars, envVars, bashVars, histVars>>
    \/ \E text \in UserTexts :
          /\ Runs < MaxRuns
          /\ SubmitSync(text)
          /\ UNCHANGED <<decVars, envVars, bashVars, histVars, seenVars>>
    \/ /\ StreamRoundStart
       /\ consumed' = <<>>
       /\ roundMark' = Len(out')
       /\ UNCHANGED <<compaction, decVars, envVars, bashVars, histVars>>
    \/ \E e \in RequestFailures :
          PostFails(e) /\ UNCHANGED <<decVars, envVars, bashVars, histVars, agVars, seenVars>>
    \/ \E b \in ChatResponses \cup (IF MayInvoke THEN ToolResponses ELSE {}) :
          PostSucceeds(b) /\ UNCHANGED <<decVars, envVars, bashVars, histVars, agVars, seenVars>>
    \/ BackoffElapsed /\ UNCHANGED <<decVars, envVars, bashVars, histVars, agVars, seenVars>>
    \/ \E f \in ContentDeltas \cup (IF MayInvoke THEN ToolDeltas ELSE {}) :
          /\ chunkCount < MaxChunks
          /\ ConsumeFragment(f)
          /\ consumed' = IF abortController = "aborted" THEN consumed
                         ELSE Append(consumed, f)
          /\ UNCHANGED <<roundMark, compaction, decVars, envVars, bashVars, histVars>>
    \/ /\ apc = "streaming"
       /\ StreamEnds
       /\ UNCHANGED <<decVars, envVars, bashVars, histVars, agVars, seenVars>>
    \/ \E e \in ReadFailures :
          /\ apc = "streaming"
          /\ StreamFails(e)
          /\ UNCHANGED <<decVars, envVars, bashVars, histVars, agVars, seenVars>>
    \/ StreamReturned /\ UNCHANGED <<decVars, envVars, bashVars, histVars, seenVars>>
    \/ StreamRaised /\ UNCHANGED <<decVars, envVars, bashVars, histVars, seenVars>>
    \/ \E ext \in ExtResults :
          StreamToolStep(ext) /\ UNCHANGED <<decVars, envVars, bashVars, histVars, seenVars>>
    \/ ChatReturned /\ UNCHANGED <<decVars, envVars, bashVars, histVars, seenVars>>
    \/ ChatRaised /\ UNCHANGED <<decVars, envVars, bashVars, histVars, seenVars>>
    \/ \E ext \in ExtResults :
          SyncToolStep(ext) /\ UNCHANGED <<decVars, envVars, bashVars, histVars, seenVars>>
    \/ abortCurrentOperation /\ UNCHANGED <<decVars, envVars, bashVars, histVars, seenVars>>

Init == DecIdle /\ TrInit /\ AgInit

Spec == Init /\ [][Next]_vars


----------------------------------------------------------------------------
(* The streaming loop on its own: the rounds of one stream run, with the   *)
(* fragments each round has consumed written to consumed.                  *)
NextStream ==
    \/ \E text \in UserTexts :
          /\ mode = "none"
          /\ SubmitStream(text)
          /\ UNCHANGED <<decVars, envVars, bashVars, histVars, seenVars>>
    \/ /\ StreamRoundStart
       /\ consumed' = <<>>
       /\ roundMark' = Len(out')
       /\ UNCHANGED <<compaction, decVars, envVars, bashVars, histVars>>
    \/ \E e \in RequestFailures :
          PostFails(e) /\ UNCHANGED <<decVars, envVars, bashVars, histVars, agVars, seenVars>>
    \/ PostSucceeds(NoBody) /\ UNCHANGED <<decVars, envVars, bashVars, histVars, agVars, seenVars>>
    \/ BackoffElapsed /\ UNCHANGED <<decVars, envVars, bashVars, histVars, agVars, seenVars>>
    \/ \E f \in ContentDeltas \cup (IF MayInvoke THEN ToolDeltas ELSE {}) :
          /\ chunkCount < MaxChunks
          /\ ConsumeFragment(f)
          /\ consumed' = IF abortController = "aborted" THEN consumed
                         ELSE Append(consumed, f)
          /\ UNCHANGED <<roundMark, compaction, decVars, envVars, bashVars, histVars>>
    \/ StreamEnds /\ UNCHANGED <<decVars, envVars, bashVars, histVars, agVars, seenVars>>
    \/ \E e \in ReadFailures :
          StreamFails(e) /\ UNCHANGED <<decVars, envVars, bashVars, histVars, agVars, seenVars>>
    \/ StreamReturned /\ UNCHANGED <<decVars, envVars, bashVars, histVars, seenVars>>
    \/ StreamRaised /\ UNCHANGED <<decVars, envVars, bashVars, histVars, seenVars>>
    \/ \E ext \in ExtResults :
          StreamToolStep(ext) /\ UNCHANGED <<decVars, envVars, bashVars, histVars, seenVars>>
    \/ abortCurrentOperation /\ UNCHANGED <<decVars, envVars, bashVars, histVars, seenVars>>

StreamInit == DecIdle /\ TrInit /\ AgInit

SpecStream == StreamInit /\ [][NextStream]_vars


----------------------------------------------------------------------------
(* Long conversations: a user submits short and long messages to the       *)
(* streaming loop, the server answers each round with one invocation or    *)
(* with a final text, and the log grows until a submission compacts it.    *)
MaxCompactRuns == 3
MaxCompactRounds == 4

CompactTexts == {<<"q">>, LongText}
CompactFragments == {Delta(<<>>, ToolCalls(<<ModelCall>>), TRUE),
                     Delta(<<"a">>, NoToolCalls, TRUE)}

NextCompact ==
    \/ \E text \in CompactTexts :
          /\ compaction.runs < MaxCompactRuns
          /\ SubmitStream(text)
          /\ compaction' = Compacted(text, compaction.runs + 1)
          /\ UNCHANGED <<consumed, roundMark, decVars, envVars, bashVars, histVars>>
    \/ StreamRoundStart /\ UNCHANGED <<decVars, envVars, bashVars, histVars, seenVars>>
    \/ /\ PostSucceeds(NoBody)
       /\ UNCHANGED <<decVars, envVars, bashVars, histVars, agVars, seenVars>>
    \/ \E f \in CompactFragments :
          /\ f.tool_calls # NoToolCalls => toolRounds < MaxCompactRounds
          /\ ConsumeFragment(f)
          /\ UNCHANGED <<decVars, envVars, bashVars, histVars, seenVars>>
    \/ StreamReturned /\ UNCHANGED <<decVars, envVars, bashVars, histVars, seenVars>>
    \/ StreamToolStep(CapResult) /\ UNCHANGED <<decVars, envVars, bashVars, histVars, seenVars>>

CompactInit == DecIdle /\ TrInit /\ AgInit

SpecCompact == CompactInit /\ [][NextCompact]_vars


----------------------------------------------------------------------------
(* The message log over whole conversations: stream and non-stream runs    *)
(* with short and long messages, rounds with an invocation, requests that  *)
(* fail, cancellations and compactions.                                    *)
MaxLogRuns == 2

LogFailure == HttpError(404)
LogResponses ==
    IF mode = "stream" THEN {NoBody}
    ELSE {ChatMessage(<<"a">>, NoToolCalls)}
            \cup (IF toolRounds < MaxCompactRounds THEN ToolResponses ELSE {})

NextLog ==
    \/ \E text \in CompactTexts :
          /\ compaction.runs < MaxLogRuns
          /\ SubmitStream(text)
          /\ compaction' = Compacted(text, compaction.runs + 1)
          /\ UNCHANGED <<consumed, roundMark, decVars, envVars, bashVars, histVars>>
    \/ /\ compaction.runs < MaxLogRuns
       /\ SubmitSync(<<"q">>)
       /\ compaction' = [compaction EXCEPT !.runs = compaction.runs + 1]
       /\ UNCHANGED <<consumed, roundMark, decVars, envVars, bashVars, histVars>>
    \/ StreamRoundStart /\ UNCHANGED <<decVars, envVars, bashVars, histVars, seenVars>>
    \/ PostFails(LogFailure) /\ UNCHANGED <<decVars, envVars, bashVars, histVars, agVars, seenVars>>
    \/ \E b \in LogResponses :
          PostSucceeds(b) /\ UNCHANGED <<decVars, envVars, bashVars, histVars, agVars, seenVars>>
    \/ \E f \in CompactFragments :
          /\ f.tool_calls # NoToolCalls => toolRounds < MaxCompactRounds
          /\ ConsumeFragment(f)
          /\ UNCHANGED <<decVars, envVars, bashVars, histVars, seenVars>>
    \/ StreamReturned /\ UNCHANGED <<decVars, envVars, bashVars, histVars, seenVars>>
    \/ StreamRaised /\ UNCHANGED <<decVars, envVars, bashVars, histVars, seenVars>>
    \/ StreamToolStep(CapResult) /\ UNCHANGED <<decVars, envVars, bashVars, histVars, seenVars>>
    \/ ChatReturned /\ UNCHANGED <<decVars, envVars, bashVars, histVars, seenVars>>
    \/ ChatRaised /\ UNCHANGED <<decVars, envVars, bashVars, histVars, seenVars>>
    \/ SyncToolStep(CapResult) /\ UNCHANGED <<decVars, envVars, bashVars, histVars, seenVars>>
    \/ abortCurrentOperation /\ UNCHANGED <<decVars, envVars, bashVars, histVars, seenVars>>

LogInit == DecIdle /\ TrInit /\ AgInit

SpecLog == LogInit /\ [][NextLog]_vars


----------------------------------------------------------------------------
(* The tool loop: one run, in either mode, whose rounds carry four         *)
(* invocations: a view_file without a path, a bash whose arguments do not  *)
(* decode, a tool that does not exist and a view_file with a path.  hist   *)
(* holds the invocations in the order of their dispatch, each with the     *)
(* result executeTool returned.                                            *)
MaxToolsRounds == 2

ToolsCalls ==
    <<ToolCall(<<"t", "1">>, ViewFileName, <<LB, RB>>),
      ToolCall(<<"t", "2">>, BashName, <<LB>>),
      ToolCall(<<"t", "3">>, <<"x">>, <<LB, RB>>),
      ToolCall(<<"t", "4">>, ViewFileName,
               <<LB, Q>> \o PathKey \o <<Q, COLON, Q, "a", Q, RB>>)>>
ToolsFragments ==
    {Delta(<<"a">>, NoToolCalls, TRUE)}
        \cup (IF toolRounds < MaxToolsRounds
              THEN {Delta(<<>>, ToolCalls(ToolsCalls), TRUE)} ELSE {})
ToolsResponses ==
    {ChatMessage(<<"a">>, NoToolCalls)}
        \cup (IF toolRounds < MaxToolsRounds
              THEN {ChatMessage(<<>>, ToolCalls(ToolsCalls))} ELSE {})
Dispatched(ext) ==
    Append(hist, [call |-> toolCalls[toolIndex],
                  result |-> executeTool(toolCalls[toolIndex], ext)])

NextTools ==
    \/ /\ mode = "none"
       /\ SubmitStream(<<"q">>)
       /\ UNCHANGED <<decVars, envVars, bashVars, histVars, seenVars>>
    \/ /\ mode = "none"
       /\ SubmitSync(<<"q">>)
       /\ UNCHANGED <<decVars, envVars, bashVars, histVars, seenVars>>
    \/ StreamRoundStart /\ UNCHANGED <<decVars, envVars, bashVars, histVars, seenVars>>
    \/ \E b \in ToolsResponses :
          PostSucceeds(b) /\ UNCHANGED <<decVars, envVars, bashVars, histVars, agVars, seenVars>>
    \/ \E f \in ToolsFragments :
          ConsumeFragment(f) /\ UNCHANGED <<decVars, envVars, bashVars, histVars, seenVars>>
    \/ StreamReturned /\ UNCHANGED <<decVars, envVars, bashVars, histVars, seenVars>>
    \/ \E ext \in ExtResults :
          /\ StreamToolStep(ext)
          /\ hist' = Dispatched(ext)
          /\ UNCHANGED <<attempts, decVars, envVars, bashVars, seenVars>>
    \/ ChatReturned /\ UNCHANGED <<decVars, envVars, bashVars, histVars, seenVars>>
    \/ \E ext \in ExtResults :
          /\ SyncToolStep(ext)
          /\ hist' = Dispatched(ext)
          /\ UNCHANGED <<attempts, decVars, envVars, bashVars, seenVars>>

ToolsInit == DecIdle /\ TrInit /\ AgInit

SpecTools == ToolsInit /\ [][NextTools]_vars


----------------------------------------------------------------------------
(* Failing requests: one run, in either mode, whose requests fail with     *)
(* retryable and non-retryable conditions, whose stream may break while it *)
(* is read, and which the user may cancel.                                 *)
NextFail ==
    \/ \E text \in UserTexts :
          /\ mode = "none"
          /\ SubmitStream(text)
          /\ UNCHANGED <<decVars, envVars, bashVars, histVars, seenVars>>
    \/ \E text \in UserTexts :
          /\ mode = "none"
          /\ SubmitSync(text)
          /\ UNCHANGED <<decVars, envVars, bashVars, histVars, seenVars>>
    \/ StreamRoundStart /\ UNCHANGED <<decVars, envVars, bashVars, histVars, seenVars>>
    \/ \E e \in RequestFailures :
          PostFails(e) /\ UNCHANGED <<decVars, envVars, bashVars, histVars, agVars, seenVars>>
    \/ \E b \in ChatResponses \cup (IF MayInvoke THEN ToolResponses ELSE {}) :
          /\ mode = "stream" => b = NoMessage
          /\ PostSucceeds(b)
          /\ UNCHANGED <<decVars, envVars, bashVars, histVars, agVars, seenVars>>
    \/ BackoffElapsed /\ UNCHANGED <<decVars, envVars, bashVars, histVars, agVars, seenVars>>
    \/ \E f \in ContentDeltas \cup (IF MayInvoke THEN ToolDeltas ELSE {}) :
          /\ chunkCount < MaxChunks
          /\ ConsumeFragment(f)
          /\ UNCHANGED <<decVars, envVars, bashVars, histVars, seenVars>>
    \/ /\ apc = "streaming"
       /\ StreamEnds
       /\ UNCHANGED <<decVars, envVars, bashVars, histVars, agVars, seenVars>>
    \/ \E e \in ReadFailures :
          /\ apc = "streaming"
          /\ StreamFails(e)
          /\ UNCHANGED <<decVars, envVars, bashVars, histVars, agVars, seenVars>>
    \/ StreamReturned /\ UNCHANGED <<decVars, envVars, bashVars, histVars, seenVars>>
    \/ StreamRaised /\ UNCHANGED <<decVars, envVars, bashVars, histVars, seenVars>>
    \/ \E ext \in ExtResults :
          StreamToolStep(ext) /\ UNCHANGED <<decVars, envVars, bashVars, histVars, seenVars>>
    \/ ChatReturned /\ UNCHANGED <<decVars, envVars, bashVars, histVars, seenVars>>
    \/ ChatRaised /\ UNCHANGED <<decVars, envVars, bashVars, histVars, seenVars>>
    \/ \E ext \in ExtResults :
          SyncToolStep(ext) /\ UNCHANGED <<decVars, envVars, bashVars, histVars, seenVars>>
    \/ abortCurrentOperation /\ UNCHANGED <<decVars, envVars, bashVars, histVars, seenVars>>

FailInit == DecIdle /\ TrInit /\ AgInit

SpecFail == FailInit /\ [][NextFail]_vars


----------------------------------------------------------------------------
(* The shell tool alone: calls of BashTool.execute, one at a time, while    *)
(* the user answers its confirmation requests and toggles the session flags *)
MaxBashRuns == 2

Commands ==
    { <<"l", "s">>,
      <<"c", "d", " ", "/", "t", "m", "p">>,
      <<" ", "R", "m", " ", "-", "r", "f", " ", "/">>,
      <<"s", "u", "d", "o", " ", "l", "s">>,
      <<"e", "c", "h", "o", " ", "r", "m", " ", "-", "r">>,
      <<"c", "u", "r", "l", " ", "u", " ", "|", " ", "s", "h">>,
      <<"l", "s", " ", ">", "/", "d", "e", "v", "/", "n", "u", "l", "l">> }

Answers ==
    { [confirmed |-> TRUE, feedback |-> Undefined],
      [confirmed |-> FALSE, feedback |-> Undefined],
      [confirmed |-> FALSE, feedback |-> <<"n", "o">>] }

ExecOutcomes ==
    { [failed |-> FALSE, stdout |-> <<"a", LF>>, stderr |-> <<>>],
      [failed |-> FALSE, stdout |-> <<>>, stderr |-> <<>>],
      [failed |-> FALSE, stdout |-> <<"a">>, stderr |-> <<"x">>],
      [failed |-> TRUE, stdout |-> <<>>, stderr |-> <<>>] }

NextBash ==
    \/ \E cmd \in Commands :
          /\ Len(ran) < MaxBashRuns
          /\ BashExecute(cmd)
          /\ UNCHANGED <<decVars, envVars, trVars, histVars, agVars, seenVars>>
    \/ \E ok \in BOOLEAN :
          BashCheck(ok) /\ UNCHANGED <<decVars, envVars, trVars, histVars, agVars, seenVars>>
    \/ \E answer \in Answers, ok \in BOOLEAN :
          /\ BashConfirmed(answer, ok)
          /\ UNCHANGED <<decVars, envVars, trVars, histVars, agVars, seenVars>>
    \/ \E o \in ExecOutcomes :
          BashSettled(o) /\ UNCHANGED <<decVars, envVars, trVars, histVars, agVars, seenVars>>
    \/ \E flag \in {"bashCommands", "allOperations"} :
          setSessionFlag(flag) /\ UNCHANGED <<decVars, envVars, trVars, histVars, agVars, seenVars>>
    \/ resetSession /\ UNCHANGED <<decVars, envVars, trVars, histVars, agVars, seenVars>>

BashInit == DecIdle /\ TrInit /\ AgInit

SpecBash == BashInit /\ [][NextBash]_vars

----------------------------------------------------------------------------
(* One streamed round whose fragments carry pieces of invocations: a name,  *)
(* the two halves of an argument text, an identifier, at one or two         *)
(* positions of tool_calls                                                  *)
MaxMergeChunks == 3

NamePiece == ToolCall(Undefined, BashName, Undefined)
HeadPiece == ToolCall(Undefined, Undefined,
                      <<LB, Q, "c", "o", "m", "m", "a", "n", "d", Q>>)
TailPiece == ToolCall(Undefined, Undefined, <<COLON, Q, "l", "s", Q, RB>>)
IdPiece == ToolCall(<<"c", "1">>, <<"x">>, Undefined)
Pieces == {NamePiece, HeadPiece, TailPiece, IdPiece}

MergeFragments ==
    {Delta(<<>>, ToolCalls(a), FALSE) : a \in [1..1 -> Pieces] \cup [1..2 -> Pieces]}
    \cup {Delta(<<"a">>, NoToolCalls, FALSE)}

NextMerge ==
    \/ /\ mode = "none"
       /\ SubmitStream(<<"q">>)
       /\ UNCHANGED <<decVars, envVars, bashVars, histVars, seenVars>>
    \/ /\ StreamRoundStart
       /\ consumed' = <<>>
       /\ roundMark' = Len(out')
       /\ UNCHANGED <<compaction, decVars, envVars, bashVars, histVars>>
    \/ PostSucceeds(NoBody) /\ UNCHANGED <<decVars, envVars, bashVars, histVars, agVars, seenVars>>
    \/ \E f \in MergeFragments :
          /\ chunkCount < MaxMergeChunks
          /\ ConsumeFragment(f)
          /\ consumed' = Append(consumed, f)
          /\ UNCHANGED <<roundMark, compaction, decVars, envVars, bashVars, histVars>>

MergeInit == DecIdle /\ TrInit /\ AgInit

SpecMerge == MergeInit /\ [][NextMerge]_vars

----------------------------------------------------------------------------
(* safeJsonParse on objects with one string member whose value is written   *)
(* with bare control characters, plain characters and escaped quotes        *)
MaxValueTokens == 3

ValueTokens == {<<"x">>, <<LF>>, <<TAB>>, <<CR>>, <<BSL, Q>>}

RECURSIVE Flatten(_, _)
Flatten(tokens, n) ==
    IF n > Len(tokens) THEN <<>> ELSE tokens[n] \o Flatten(tokens, n + 1)

ControlInputs ==
    { <<LB, Q, "a", Q, COLON, Q>> \o Flatten(tokens, 1) \o <<Q, RB>> :
          tokens \in UNION {[1..k -> ValueTokens] : k \in 0..MaxValueTokens} }

ControlInit ==
    /\ raw \in ControlInputs
    /\ dpc = "entry"
    /\ dval = EmptyObject
    /\ dstages = <<>>
    /\ TrInit
    /\ AgInit

SpecControl == ControlInit /\ [][NextDecode]_vars

----------------------------------------------------------------------------
(* One run, in either mode, against a model that answers a request with the *)
(* two invocations or with a final answer, or fails it; the user may cancel *)
LimitAnswer == ChatMessage(<<"a">>, NoToolCalls)
LimitFragments == {CapFragment, Delta(<<"a">>, NoToolCalls, TRUE)}

NextLimit ==
    \/ /\ mode = "none"
       /\ SubmitStream(<<"q">>)
       /\ UNCHANGED <<decVars, envVars, bashVars, histVars, seenVars>>
    \/ /\ mode = "none"
       /\ SubmitSync(<<"q">>)
       /\ UNCHANGED <<decVars, envVars, bashVars, histVars, seenVars>>
    \/ StreamRoundStart /\ UNCHANGED <<decVars, envVars, bashVars, histVars, seenVars>>
    \/ PostFails(LogFailure) /\ UNCHANGED <<decVars, envVars, bashVars, histVars, agVars, seenVars>>
    \/ \E b \in {CapResponse, LimitAnswer} :
          PostSucceeds(b) /\ UNCHANGED <<decVars, envVars, bashVars, histVars, agVars, seenVars>>
    \/ \E f \in LimitFragments :
          ConsumeFragment(f) /\ UNCHANGED <<decVars, envVars, bashVars, histVars, seenVars>>
    \/ StreamReturned /\ UNCHANGED <<decVars, envVars, bashVars, histVars, seenVars>>
    \/ StreamRaised /\ UNCHANGED <<decVars, envVars, bashVars, histVars, seenVars>>
    \/ StreamToolStep(CapResult) /\ UNCHANGED <<decVars, envVars, bashVars, histVars, seenVars>>
    \/ ChatReturned /\ UNCHANGED <<decVars, envVars, bashVars, histVars, seenVars>>
    \/ ChatRaised /\ UNCHANGED <<decVars, envVars, bashVars, histVars, seenVars>>
    \/ SyncToolStep(CapResult) /\ UNCHANGED <<decVars, envVars, bashVars, histVars, seenVars>>
    \/ abortCurrentOperation /\ UNCHANGED <<decVars, envVars, bashVars, histVars, seenVars>>

LimitInit == DecIdle /\ TrInit /\ AgInit

SpecLimit == LimitInit /\ [][NextLimit]_vars

----------------------------------------------------------------------------
(* Some runs, in either mode, against a model that answers a request with   *)
(* one invocation, with two, or with a final answer                         *)
MaxRoundRuns == 2
MaxRoundsPerRun == 2

RoundResponses ==
    {ChatMessage(<<"a">>, NoToolCalls)}
        \cup (IF toolRounds < MaxRoundsPerRun
              THEN {ChatMessage(<<>>, ToolCalls(<<ModelCall>>)), CapResponse} ELSE {})
RoundFragments ==
    {Delta(<<"a">>, NoToolCalls, TRUE)}
        \cup (IF toolRounds < MaxRoundsPerRun
              THEN {Delta(<<>>, ToolCalls(<<ModelCall>>), TRUE), CapFragment} ELSE {})

NextRounds ==
    \/ /\ Runs < MaxRoundRuns
       /\ SubmitStream(<<"q">>)
       /\ UNCHANGED <<decVars, envVars, bashVars, histVars, seenVars>>
    \/ /\ Runs < MaxRoundRuns
       /\ SubmitSync(<<"q">>)
       /\ UNCHANGED <<decVars, envVars, bashVars, histVars, seenVars>>
    \/ StreamRoundStart /\ UNCHANGED <<decVars, envVars, bashVars, histVars, seenVars>>
    \/ \E b \in RoundResponses :
          PostSucceeds(b) /\ UNCHANGED <<decVars, envVars, bashVars, histVars, agVars, seenVars>>
    \/ \E f \in RoundFragments :
          ConsumeFragment(f) /\ UNCHANGED <<decVars, envVars, bashVars, histVars, seenVars>>
    \/ StreamReturned /\ UNCHANGED <<decVars, envVars, bashVars, histVars, seenVars>>
    \/ StreamToolStep(CapResult) /\ UNCHANGED <<decVars, envVars, bashVars, histVars, seenVars>>
    \/ ChatReturned /\ UNCHANGED <<decVars, envVars, bashVars, histVars, seenVars>>
    \/ SyncToolStep(CapResult) /\ UNCHANGED <<decVars, envVars, bashVars, histVars, seenVars>>

RoundsInit == DecIdle /\ TrInit /\ AgInit

SpecRounds == RoundsInit /\ [][NextRounds]_vars

----------------------------------------------------------------------------
(* One streamed run whose fragments carry content, a name, or an argument   *)
(* text without a name, until it has yielded MaxNotifyOut chunks; the user  *)
(* may cancel                                                               *)
MaxNotifyChunks == 3
MaxNotifyOut == 7

NotifyFragments ==
    {Delta(<<"a">>, NoToolCalls, FALSE), Delta(<<>>, NoToolCalls, TRUE)}
        \cup (IF Len(out) < MaxNotifyOut
              THEN {Delta(<<>>, ToolCalls(<<HeadPiece>>), FALSE),
                    Delta(<<>>, ToolCalls(<<NamePiece>>), FALSE)}
              ELSE {})

NextNotify ==
    \/ /\ mode = "none"
       /\ SubmitStream(<<"q">>)
       /\ UNCHANGED <<decVars, envVars, bashVars, histVars, seenVars>>
    \/ /\ StreamRoundStart
       /\ consumed' = <<>>
       /\ roundMark' = Len(out')
       /\ UNCHANGED <<compaction, decVars, envVars, bashVars, histVars>>
    \/ PostSucceeds(NoBody) /\ UNCHANGED <<decVars, envVars, bashVars, histVars, agVars, seenVars>>
    \/ \E f \in NotifyFragments :
          /\ chunkCount < MaxNotifyChunks
          /\ ConsumeFragment(f)
          /\ consumed' = IF abortController = "aborted" THEN consumed
                         ELSE Append(consumed, f)
          /\ UNCHANGED <<roundMark, compaction, decVars, envVars, bashVars, histVars>>
    \/ /\ apc = "streaming"
       /\ StreamEnds
       /\ UNCHANGED <<decVars, envVars, bashVars, histVars, agVars, seenVars>>
    \/ StreamReturned /\ UNCHANGED <<decVars, envVars, bashVars, histVars, seenVars>>
    \/ StreamToolStep(CapResult) /\ UNCHANGED <<decVars, envVars, bashVars, histVars, seenVars>>
    \/ abortCurrentOperation /\ UNCHANGED <<decVars, envVars, bashVars, histVars, seenVars>>

NotifyInit == DecIdle /\ TrInit /\ AgInit

SpecNotify == NotifyInit /\ [][NextNotify]_vars

----------------------------------------------------------------------------
(* messageReducer over arbitrary fragment values.  The typed aggregator     *)
(* above covers the content and tool_calls fields of a delta; here the inner *)
(* reduce function is translated for every JSON value a delta may carry, and *)
(* a TypeError raised by it is the result Threw.                             *)

JUndefined == JLit("undefined")
Reduced(v) == [ok |-> TRUE, v |-> v]
Threw == [ok |-> FALSE, v |-> JNull]

Nullish(v) == v.t \in {"null", "undefined"}
\* typeof v === "object": objects, arrays and null
TypeofObject(v) == v.t \in {"object", "array", "null"}

\* the own enumerable properties of a value, as Object.entries and the
\* object spread list them
IndexKey(n) == <<DigitChar[n]>>
Properties(v) ==
    CASE v.t = "object" -> v.kv
      [] v.t = "array" -> [n \in 1..Len(v.kv) |-> [k |-> IndexKey(n), v |-> v.kv[n].v]]
      [] v.t = "string" -> [n \in 1..Len(v.s) |-> [k |-> IndexKey(n), v |-> JStr(<<v.s[n]>>)]]
      [] OTHER -> <<>>

\* delete arr.index on one element of a freshly set array
DeleteIndex(v) ==
    IF v.t = "object"
    THEN JObj(SelectSeq(v.kv, LAMBDA p : p.k # <<"index">>))
    ELSE v

RECURSIVE reduce(_, _)
RECURSIVE ReduceEntries(_, _, _)
RECURSIVE ReduceKey(_, _, _)
RECURSIVE ReduceSlots(_, _, _)

\* one iteration of the loop over Object.entries(delta)
ReduceKey(acc, key, value) ==
    IF ~ObjHas(acc, key) \/ Nullish(ObjGet(acc, key))
    THEN IF value.t = "array"
         THEN IF \E n \in 1..Len(value.kv) : Nullish(value.kv[n].v)
              THEN Threw
              ELSE Reduced(JObj(ObjPut(acc.kv, key,
                       JArr([n \in 1..Len(value.kv) |->
                                [k |-> <<>>, v |-> DeleteIndex(value.kv[n].v)]]))))
         ELSE Reduced(JObj(ObjPut(acc.kv, key, value)))
    ELSE LET held == ObjGet(acc, key) IN
         CASE held.t = "string" /\ value.t = "string" ->
                  Reduced(JObj(ObjPut(acc.kv, key, JStr(held.s \o value.s))))
           [] held.t = "array" /\ value.t = "array" ->
                  LET r == ReduceSlots(held.kv, value.kv, 1)
                  IN  IF r.ok THEN Reduced(JObj(ObjPut(acc.kv, key, r.v))) ELSE Threw
           [] ~(held.t = "string" /\ value.t = "string")
              /\ ~(held.t = "array" /\ value.t = "array")
              /\ TypeofObject(held) /\ TypeofObject(value) ->
                  LET r == reduce(held, value)
                  IN  IF r.ok THEN Reduced(JObj(ObjPut(acc.kv, key, r.v))) ELSE Threw
           [] OTHER -> Reduced(acc)

ReduceEntries(acc, entries, n) ==
    IF n > Len(entries)
    THEN Reduced(acc)
    ELSE LET r == ReduceKey(acc, entries[n].k, entries[n].v)
         IN  IF r.ok THEN ReduceEntries(r.v, entries, n + 1) ELSE Threw

\* for (let i = 0; i < value.length; i++) { ... accArray[i] = reduce(accArray[i], value[i]) }
ReduceSlots(slots, values, i) ==
    IF i > Len(values)
    THEN Reduced(JArr(slots))
    ELSE LET slot == IF i <= Len(slots) /\ ~Nullish(slots[i].v) /\ Truthy(slots[i].v)
                     THEN slots[i].v
                     ELSE EmptyObject
             r == reduce(slot, values[i].v)
         IN  IF ~r.ok
             THEN Threw
             ELSE ReduceSlots(IF i <= Len(slots)
                              THEN [slots EXCEPT ![i] = [k |-> <<>>, v |-> r.v]]
                              ELSE Append(slots, [k |-> <<>>, v |-> r.v]),
                              values, i + 1)

\* const reduce = (acc, delta) => { acc = {...acc}; for (... of Object.entries(delta)) ...}
reduce(acc, delta) ==
    IF Nullish(delta)
    THEN Threw
    ELSE ReduceEntries(JObj(Properties(acc)), Properties(delta), 1)

\* The fragments of the set-once runs: a delta sets the field n, or the field
\* n of the nested object f, to a value of any type, or sets f itself.
MaxScalarFragments == 3
One(v) == <<[k |-> <<>>, v |-> v]>>
Field(k, v) == JObj(<<[k |-> k, v |-> v]>>)
FragmentValues ==
    { JNum(<<"5">>), JNum(<<"7">>), JLit("true"), JLit("false"), JStr(<<"x">>),
      JNull, JArr(One(JNum(<<"7">>))), Field(<<"n">>, JNum(<<"7">>)) }
ScalarFragments ==
    { Field(<<"n">>, v) : v \in FragmentValues }
    \cup { Field(<<"f">>, Field(<<"n">>, v)) : v \in FragmentValues }
    \cup { Field(<<"f">>, JNull), Field(<<"f">>, JArr(One(JNull))) }

\* for await (const chunk of stream): accumulatedMessage = this.messageReducer(...)
\* with the delta of the chunk; a TypeError leaves the loop
ReduceFragment(delta) ==
    /\ accumulatedMessage.ok
    /\ Len(consumed) < MaxScalarFragments
    /\ accumulatedMessage' = reduce(accumulatedMessage.v, delta)
    /\ consumed' = Append(consumed, delta)
    /\ UNCHANGED <<decVars, envVars, bashVars, trVars, histVars, roundMark, compaction>>
    /\ UNCHANGED <<messages, apc, mode, toolRounds, abortController, toolCallsYielded,
                   toolCalls, toolIndex, out, idCount>>

NextScalar == \E delta \in ScalarFragments : ReduceFragment(delta)

\* let accumulatedMessage: any = {}; the variable holds the result of the
\* latest messageReducer call in these runs
ScalarInit ==
    /\ DecIdle /\ TrInit /\ BashIdle /\ EnvIdle
    /\ messages = <<SystemMessage>>
    /\ apc = "streaming"
    /\ mode = "stream"
    /\ toolRounds = 0
    /\ abortController = "null"
    /\ accumulatedMessage = Reduced(EmptyObject)
    /\ toolCallsYielded = FALSE
    /\ toolCalls = <<>>
    /\ toolIndex = 0
    /\ out = <<>>
    /\ idCount = 0
    /\ consumed = <<>>
    /\ roundMark = 0
    /\ compaction = NoCompaction

SpecScalar == ScalarInit /\ [][NextScalar]_vars

----------------------------------------------------------------------------
(* Invocations written in the content: one streaming run whose fragments    *)
(* carry plain text, the text of an invocation, the opening and the closing *)
(* of a fenced block, an empty object, null, or an invocation on the        *)
(* tool_calls channel, while the log holds fewer than MaxFallbackLog        *)
(* messages and the content no more than MaxFallbackText characters; later  *)
(* rounds carry plain text.                                                 *)
MaxFallbackChunks == 3
MaxFallbackLog == 3
MaxFallbackText == 42

CallJson ==
    <<LB, Q>> \o NameKey \o <<Q, COLON, Q>> \o BashName \o <<Q, COMMA, Q>>
        \o ArgumentsKey \o <<Q, COLON, LB, RB, RB>>
FallbackTexts ==
    {<<"a">>, CallJson, FenceOpen \o <<LF>>, <<LF>> \o Fence, <<LB, RB>>,
     <<"n", "u", "l", "l">>}
FallbackFragments ==
    {Delta(<<"a">>, NoToolCalls, FALSE), Delta(<<>>, NoToolCalls, TRUE)}
        \cup (IF Len(messages) < MaxFallbackLog
              THEN {Delta(text, NoToolCalls, FALSE) : text \in FallbackTexts}
                       \cup {Delta(<<>>, ToolCalls(<<ModelCall>>), FALSE)}
              ELSE {})

NextFallback ==
    \/ /\ mode = "none"
       /\ SubmitStream(<<"q">>)
       /\ UNCHANGED <<decVars, envVars, bashVars, histVars, seenVars>>
    \/ StreamRoundStart /\ UNCHANGED <<decVars, envVars, bashVars, histVars, seenVars>>
    \/ PostSucceeds(NoBody) /\ UNCHANGED <<decVars, envVars, bashVars, histVars, agVars, seenVars>>
    \/ \E f \in FallbackFragments :
          /\ chunkCount < MaxFallbackChunks
          /\ Len(ContentOrEmpty(accumulatedMessage)) + Len(f.content) <= MaxFallbackText
          /\ ConsumeFragment(f)
          /\ UNCHANGED <<decVars, envVars, bashVars, histVars, seenVars>>
    \/ /\ apc = "streaming"
       /\ StreamEnds
       /\ UNCHANGED <<decVars, envVars, bashVars, histVars, agVars, seenVars>>
    \/ StreamReturned /\ UNCHANGED <<decVars, envVars, bashVars, histVars, seenVars>>
    \/ StreamToolStep(CapResult) /\ UNCHANGED <<decVars, envVars, bashVars, histVars, seenVars>>

FallbackInit == DecIdle /\ TrInit /\ AgInit

SpecFallback == FallbackInit /\ [][NextFallback]_vars

----------------------------------------------------------------------------
(* OllamaClient.chatStream reading a response stream: the server's chunks   *)
(* are pieces of newline-delimited JSON; a chunk may hold several lines, a  *)
(* part of a line, or end in the middle of one.  The lines of these runs    *)
(* carry a content and a done flag, no tool_calls.                          *)
MaxLineChunks == 3
MaxLineLen == 30

MessageKey == <<"m", "e", "s", "s", "a", "g", "e">>
ContentKey == <<"c", "o", "n", "t", "e", "n", "t">>
DoneKey == <<"d", "o", "n", "e">>

\* buffer.split('\n')
RECURSIVE SplitLines(_)
SplitLines(s) ==
    IF \A n \in 1..Len(s) : s[n] # LF
    THEN <<s>>
    ELSE LET n == CHOOSE a \in 1..Len(s) :
                      s[a] = LF /\ \A b \in 1..(a - 1) : s[b] # LF
         IN  <<SubSeq(s, 1, n - 1)>> \o SplitLines(SubSeq(s, n + 1, Len(s)))

\* const data = JSON.parse(line) and the property reads that follow it in the
\* same try block: reading a property of null throws
LineParsed(line) ==
    LET data == JsonParse(line)
    IN  IF data.ok /\ data.v.t # "null" THEN data ELSE [ok |-> FALSE, v |-> JNull]

\* data.message?.content || ''
LineContent(data) ==
    IF data.t = "object" /\ ObjHas(data, MessageKey)
       /\ ObjGet(data, MessageKey).t = "object"
       /\ ObjHas(ObjGet(data, MessageKey), ContentKey)
       /\ Truthy(ObjGet(ObjGet(data, MessageKey), ContentKey))
    THEN LET content == ObjGet(ObjGet(data, MessageKey), ContentKey)
         IN  IF content.t = "string" THEN content.s
             ELSE <<"<not a string>">> \o JsonStringify(content)
    ELSE <<>>
\* data.done, as a condition
LineDone(data) ==
    data.t = "object" /\ ObjHas(data, DoneKey) /\ Truthy(ObjGet(data, DoneKey))

\* convertedChunk: finish_reason is 'stop' when data.done holds
ConvertLine(data) == Delta(LineContent(data), NoToolCalls, LineDone(data))

RECURSIVE ProcessLinesPastDone(_, _, _)
ProcessLinesPastDone(lines, i, frags) ==
    IF i > Len(lines)
    THEN [frags |-> frags, done |-> \E n \in 1..Len(frags) : frags[n].done]
    ELSE LET parsed == LineParsed(lines[i])
         IN  IF Trim(lines[i]) = <<>> \/ ~parsed.ok
             THEN ProcessLinesPastDone(lines, i + 1, frags)
             ELSE ProcessLinesPastDone(lines, i + 1, Append(frags, ConvertLine(parsed.v)))

\* for (const line of lines): the fragments yielded, and whether the
\* generator returned on a done flag
RECURSIVE ProcessLines(_, _, _)
ProcessLines(lines, i, frags) ==
    IF i > Len(lines)
    THEN [frags |-> frags, done |-> FALSE]
    ELSE LET parsed == LineParsed(lines[i])
         IN  IF Trim(lines[i]) = <<>> \/ ~parsed.ok
             THEN ProcessLines(lines, i + 1, frags)
             ELSE IF LineDone(parsed.v)
             THEN [frags |-> Append(frags, ConvertLine(parsed.v)), done |-> TRUE]
             ELSE ProcessLines(lines, i + 1, Append(frags, ConvertLine(parsed.v)))

\* one iteration of for await (const chunk of response.data): the complete
\* lines of the buffer are parsed and yielded in order, the rest is kept
StreamChunk(chunk) ==
    /\ tpc = "stream"
    /\ LET lines == SplitLines(buffer \o chunk)
           r == ProcessLines(SubSeq(lines, 1, Len(lines) - 1), 1, <<>>)
       IN  /\ buffer' = IF r.done THEN <<>> ELSE lines[Len(lines)]
           /\ yielded' = yielded + Len(r.frags)
           /\ consumed' = consumed \o r.frags
           /\ tpc' = IF r.done THEN "returned" ELSE "stream"
    /\ chunkCount' = chunkCount + 1
    /\ received' = received \o chunk
    /\ UNCHANGED <<payload, retryCount, requests, delays, thrown, response,
                   lastErrorDetails, currentModel>>

ContentLine ==
    <<LB, Q>> \o MessageKey \o <<Q, COLON, LB, Q>> \o ContentKey
        \o <<Q, COLON, Q, "a", Q, RB, RB>>
DoneLine == <<LB, Q>> \o DoneKey \o <<Q, COLON, "t", "r", "u", "e", RB>>
LineChunks ==
    { ContentLine \o <<LF>>,
      SubSeq(ContentLine, 1, 12),
      SubSeq(ContentLine, 13, Len(ContentLine)) \o <<LF>>,
      DoneLine \o <<LF>>,
      DoneLine,
      <<"x", LF>>,
      <<LF>>,
      <<SP, "n", "u", "l", "l", LF>>,
      ContentLine \o <<LF>> \o DoneLine \o <<LF>> \o ContentLine \o <<LF>> }

NextLines ==
    \/ /\ BeginCall(TRUE, messages)
       /\ UNCHANGED <<decVars, bashVars, histVars, agVars, seenVars, envVars>>
    \/ /\ PostSucceeds(NoBody)
       /\ UNCHANGED <<decVars, bashVars, histVars, agVars, seenVars, envVars>>
    \/ \E chunk \in LineChunks :
          /\ chunkCount < MaxLineChunks
          /\ \A n \in 1..Len(SplitLines(buffer \o chunk)) :
                 Len(SplitLines(buffer \o chunk)[n]) <= MaxLineLen
          /\ StreamChunk(chunk)
          /\ UNCHANGED <<decVars, bashVars, histVars, agVars, roundMark, compaction,
                         runVars, uiVars, mcpVars, pairVars>>
    \/ /\ StreamEnds
       /\ UNCHANGED <<decVars, bashVars, histVars, agVars, seenVars, envVars>>

LinesInit == DecIdle /\ TrInit /\ AgInit

SpecLines == LinesInit /\ [][NextLines]_vars

----------------------------------------------------------------------------
(* Tool routing: one streaming run whose rounds carry invocations of        *)
(* built-in tools, of tools with the mcp__ prefix and of names that are     *)
(* neither, with arguments that decode, that do not, or that are null.      *)
(* hist holds, for each dispatch, the invocation, the result of the tool    *)
(* had it been called, the case of the switch taken and the result          *)
(* executeTool returned.                                                    *)
MaxRouteRounds == 2

McpName == <<"m", "c", "p", "_", "_", "x">>
NearMcpName == <<"m", "c", "p", "_", "x">>
NullText == <<"n", "u", "l", "l">>
RouteCalls ==
    { ToolCall(<<"r">>, ViewFileName, <<LB, Q>> \o PathKey \o <<Q, COLON, Q, "a", Q, RB>>),
      ToolCall(<<"r">>, SearchName, <<LB, RB>>),
      ToolCall(<<"r">>, CreateFileName, <<LB, RB>>),
      ToolCall(<<"r">>, BashName, NullText),
      ToolCall(<<"r">>, StrReplaceName, <<LB>>),
      ToolCall(<<"r">>, McpName, <<LB, RB>>),
      ToolCall(<<"r">>, McpName, <<LB>>),
      ToolCall(<<"r">>, NearMcpName, <<LB, RB>>),
      ToolCall(<<"r">>, <<"x">>, <<LB, RB>>),
      ToolCall(<<"r">>, <<"B", "a", "s", "h">>, <<LB, RB>>) }
RouteRounds ==
    {<<tc>> : tc \in RouteCalls}
        \cup {<<ToolCall(<<"r">>, <<"x">>, <<LB, RB>>),
                ToolCall(<<"s">>, BashName, <<LB, RB>>)>>}
RouteFragments ==
    {Delta(<<"a">>, NoToolCalls, TRUE)}
        \cup (IF toolRounds < MaxRouteRounds
              THEN {Delta(<<>>, ToolCalls(calls), TRUE) : calls \in RouteRounds}
              ELSE {})
Routed(ext) ==
    Append(hist, [call |-> toolCalls[toolIndex],
                  ext |-> ext,
                  target |-> ToolTarget(toolCalls[toolIndex],
                                        safeJsonParse(ArgumentsText(toolCalls[toolIndex]))),
                  result |-> executeTool(toolCalls[toolIndex], ext)])

NextRoute ==
    \/ /\ mode = "none"
       /\ SubmitStream(<<"q">>)
       /\ UNCHANGED <<decVars, envVars, bashVars, histVars, seenVars>>
    \/ StreamRoundStart /\ UNCHANGED <<decVars, envVars, bashVars, histVars, seenVars>>
    \/ PostSucceeds(NoBody)
          /\ UNCHANGED <<decVars, envVars, bashVars, histVars, agVars, seenVars>>
    \/ \E f \in RouteFragments :
          ConsumeFragment(f) /\ UNCHANGED <<decVars, envVars, bashVars, histVars, seenVars>>
    \/ StreamReturned /\ UNCHANGED <<decVars, envVars, bashVars, histVars, seenVars>>
    \/ \E ext \in ExtResults :
          /\ StreamToolStep(ext)
          /\ hist' = Routed(ext)
          /\ UNCHANGED <<attempts, decVars, envVars, bashVars, seenVars>>

RouteInit == DecIdle /\ TrInit /\ AgInit

SpecRoute == RouteInit /\ [][NextRoute]_vars

----------------------------------------------------------------------------
(* Overlapping runs: the runs of processUserMessageStream the input handler *)
(* starts on one agent without waiting for the run in progress, reduced to  *)
(* what they do with the agent's abortController field, and the calls of    *)
(* abortCurrentOperation made while one of them is in progress.             *)
OverlapRest ==
    UNCHANGED <<messages, apc, mode, toolRounds, accumulatedMessage, toolCallsYielded,
                toolCalls, toolIndex, out, idCount, decVars, bashVars, trVars,
                histVars, seenVars, lineVars, uiVars, mcpVars, pairVars>>

NextOverlap ==
    \/ \E r \in OverlapRuns : RunStarts(r) /\ OverlapRest
    \/ \E r \in OverlapRuns :
          /\ overlap[r].checks < MaxOverlapChecks
          /\ RunCheckpoint(r)
          /\ OverlapRest
    \/ \E r \in OverlapRuns : RunCompletes(r) /\ OverlapRest
    \/ AbortCalled /\ OverlapRest

OverlapInit == DecIdle /\ TrInit /\ AgInit

SpecOverlap == OverlapInit /\ [][NextOverlap]_vars

----------------------------------------------------------------------------
(* MCP initialization: the initializeMCP call started by the constructor    *)
(* and the processUserMessage calls that wait for it. The fair              *)
(* specification assumes that the initialization call returns or raises and *)
(* that the event loop runs every continuation and timer that is due.       *)
McpRest ==
    UNCHANGED <<decVars, bashVars, trVars, histVars, agVars, seenVars, lineVars,
                runVars, uiVars, pairVars>>

NextMcp ==
    \/ \E outcome \in ConfigOutcomes : LoadConfig(outcome) /\ McpRest
    \/ ConnectReturns /\ McpRest
    \/ ConnectRaises /\ McpRest
    \/ \E c \in McpCalls : CallArrives(c) /\ McpRest
    \/ \E c \in McpCalls : WaitCheck(c) /\ McpRest
    \/ \E c \in McpCalls : TimerFires(c) /\ McpRest

McpInit == DecIdle /\ TrInit /\ AgInit

McpFairness ==
    /\ WF_vars(\E outcome \in ConfigOutcomes : LoadConfig(outcome) /\ McpRest)
    /\ WF_vars((ConnectReturns \/ ConnectRaises) /\ McpRest)
    /\ \A c \in McpCalls : WF_vars((WaitCheck(c) \/ TimerFires(c)) /\ McpRest)

SpecMcp == McpInit /\ [][NextMcp]_vars /\ McpFairness

----------------------------------------------------------------------------
(* The input handler: one run started from the prompt whose chunks the      *)
(* hook handles one by one, while the user toggles auto-edit with Shift+Tab *)
(* and enters the direct commands /clear and /help at any moment.           *)
MaxUiCommands == 3
MaxUiOut == 5

\* a ChatEntry of the UI; streamed marks the entries made from content chunks
UiEntry(type, content, calls, result, isStreaming, streamed) ==
    [type |-> type, content |-> content, toolCalls |-> calls, toolResult |-> result,
     isStreaming |-> isStreaming, streamed |-> streamed]
HelpEntry == UiEntry("assistant", <<"Ollama Agent CLI Help">>, <<>>, NoResult, FALSE, FALSE)

\* a run is being consumed by the for await loop of the hook
UiRunning == mode = "stream" /\ ~(apc = "idle" /\ uiPos = Len(out))

\* Shift+Tab
ToggleAutoEdit ==
    /\ autoEditEnabled' = ~autoEditEnabled
    /\ IF ~autoEditEnabled THEN setSessionFlag("allOperations") ELSE resetSession
    /\ UNCHANGED <<chatHistory, streamingEntry, uiPos, uiConsumed, uiEvents>>

\* handleDirectCommand("/clear")
ClearCommand ==
    /\ chatHistory' = <<>>
    /\ resetSession
    /\ uiEvents' = Append(uiEvents, "/clear")
    /\ UNCHANGED <<autoEditEnabled, streamingEntry, uiPos, uiConsumed>>

\* handleDirectCommand("/help")
HelpCommand ==
    /\ chatHistory' = Append(chatHistory, HelpEntry)
    /\ uiEvents' = Append(uiEvents, "/help")
    /\ UNCHANGED <<autoEditEnabled, streamingEntry, uiPos, uiConsumed, bashVars>>

\* processUserMessage of the hook up to the first chunk
UiSubmit(text) ==
    /\ SubmitStream(text)
    /\ chatHistory' = Append(chatHistory,
                             UiEntry("user", text, <<>>, NoResult, FALSE, FALSE))
    /\ streamingEntry' = FALSE
    /\ uiPos' = 0
    /\ uiConsumed' = <<>>
    /\ uiEvents' = Append(uiEvents, "submit")
    /\ UNCHANGED <<autoEditEnabled, bashVars>>

StopStreaming(entries, calls) ==
    [n \in 1..Len(entries) |->
        IF entries[n].isStreaming
        THEN [entries[n] EXCEPT !.isStreaming = FALSE,
                                !.toolCalls = IF calls = <<>> THEN @ ELSE calls]
        ELSE entries[n]]

\* case "content" with a streaming entry: prev.map((entry, idx) => ...)
HandleContent(entries, content) ==
    [n \in 1..Len(entries) |->
        IF n = Len(entries) /\ entries[n].isStreaming
        THEN [entries[n] EXCEPT !.content = @ \o content]
        ELSE entries[n]]

\* case "tool_result": prev.map(entry => ...)
HandleToolResult(entries, tc, result) ==
    [n \in 1..Len(entries) |->
        IF entries[n].isStreaming THEN [entries[n] EXCEPT !.isStreaming = FALSE]
        ELSE IF entries[n].type = "tool_call" /\ entries[n].toolCalls[1].id = tc.id
        THEN [entries[n] EXCEPT
                !.type = "tool_result",
                !.content =
                    IF result.success
                    THEN (IF result.output \in {Undefined, <<>>} THEN <<"Success">>
                          ELSE result.output)
                    ELSE (IF result.error \in {Undefined, <<>>} THEN <<"Error occurred">>
                          ELSE result.error),
                !.toolResult = result]
        ELSE entries[n]]

\* one iteration of for await (const chunk of agent.processUserMessageStream(...))
HandleChunk ==
    /\ mode = "stream" /\ uiPos < Len(out)
    /\ uiPos' = uiPos + 1
    /\ LET chunk == out[uiPos + 1] IN
       CASE chunk.type = "content" /\ chunk.content # <<>> ->
              /\ chatHistory' =
                    IF ~streamingEntry
                    THEN Append(chatHistory,
                                UiEntry("assistant", chunk.content, <<>>, NoResult,
                                        TRUE, TRUE))
                    ELSE HandleContent(chatHistory, chunk.content)
              /\ streamingEntry' = TRUE
              /\ uiConsumed' = uiConsumed \o chunk.content
         [] chunk.type = "tool_calls" ->
              /\ chatHistory' =
                    StopStreaming(chatHistory, chunk.toolCalls)
                        \o [n \in 1..Len(chunk.toolCalls) |->
                               UiEntry("tool_call", <<"Executing...">>,
                                       <<chunk.toolCalls[n]>>, NoResult, FALSE, FALSE)]
              /\ streamingEntry' = FALSE
              /\ uiConsumed' = uiConsumed
         [] chunk.type = "tool_result" ->
              /\ chatHistory' = HandleToolResult(chatHistory, chunk.toolCalls[1],
                                                 chunk.toolResult)
              /\ streamingEntry' = FALSE
              /\ uiConsumed' = uiConsumed
         [] chunk.type = "done" ->
              /\ chatHistory' = IF streamingEntry THEN StopStreaming(chatHistory, <<>>)
                                ELSE chatHistory
              /\ UNCHANGED <<streamingEntry, uiConsumed>>
         [] OTHER -> UNCHANGED <<chatHistory, streamingEntry, uiConsumed>>
    /\ UNCHANGED <<autoEditEnabled, uiEvents, bashVars, agVars, trVars>>

UiRest == UNCHANGED <<decVars, histVars, seenVars, lineVars, runVars, mcpVars, pairVars>>
UiIdle == UNCHANGED <<uiVars, bashVars>>
Pulled == uiPos = Len(out)

NextInput ==
    \/ /\ mode = "none"
       /\ UiSubmit(<<"q">>)
       /\ UiRest
    \/ HandleChunk /\ UiRest
    \/ ToggleAutoEdit /\ UNCHANGED <<agVars, trVars>> /\ UiRest
    \/ /\ Len(uiEvents) < MaxUiCommands
       /\ ClearCommand
       /\ UNCHANGED <<agVars, trVars>> /\ UiRest
    \/ /\ Len(uiEvents) < MaxUiCommands
       /\ HelpCommand
       /\ UNCHANGED <<agVars, trVars>> /\ UiRest
    \/ /\ Pulled /\ Len(out) < MaxUiOut
       /\ StreamRoundStart
       /\ UiIdle /\ UiRest
    \/ PostSucceeds(NoBody) /\ UNCHANGED agVars /\ UiIdle /\ UiRest
    \/ \E f \in ContentDeltas \cup (IF MayInvoke THEN ToolDeltas ELSE {}) :
          /\ Pulled /\ Len(out) < MaxUiOut
          /\ chunkCount < MaxChunks
          /\ ConsumeFragment(f)
          /\ UiIdle /\ UiRest
    \/ Pulled /\ StreamReturned /\ UiIdle /\ UiRest
    \/ \E ext \in ExtResults :
          Pulled /\ StreamToolStep(ext) /\ UiIdle /\ UiRest

InputInit == DecIdle /\ TrInit /\ AgInit

SpecInput == InputInit /\ [][NextInput]_vars

----------------------------------------------------------------------------
(* The two loops on the same responses: a run of processUserMessageStream   *)
(* followed by a run of processUserMessage, against a model whose first     *)
(* script responses of a run carry the two invocations and whose later      *)
(* responses are a final answer; every tool returns the same result.        *)
(* No request fails and no run is cancelled. attempts holds the requests of *)
(* the run, hist the invocations it dispatched.                             *)
Scripts == {0, 1, 2, maxToolRounds - 1, maxToolRounds, maxToolRounds + 1}

\* the k-th response of a run carries invocations
Invokes(k) == k <= script

\* the messages of the log from the last user message on
AppendedByRun(msgs) ==
    LET users == {n \in 1..Len(msgs) : msgs[n].role = "user"}
        last == CHOOSE n \in users : \A m \in users : m <= n
    IN  SubSeq(msgs, last + 1, Len(msgs))

Ran(m) == \E n \in 1..Len(summary) : summary[n].mode = m

\* the run ends in this step: its summary is recorded
Summarized ==
    summary' = IF apc # "idle" /\ apc' = "idle"
               THEN Append(summary, [mode |-> mode,
                                     appended |-> AppendedByRun(messages'),
                                     dispatched |-> hist,
                                     requests |-> Len(attempts)])
               ELSE summary

PairRest == UNCHANGED <<decVars, bashVars, seenVars, lineVars, runVars, uiVars, mcpVars>>

NextPair ==
    \/ /\ ~Ran("stream")
       /\ SubmitStream(<<"q">>)
       /\ script' \in Scripts
       /\ attempts' = <<>> /\ hist' = <<>>
       /\ UNCHANGED summary /\ PairRest
    \/ /\ Ran("stream") /\ ~Ran("sync")
       /\ SubmitSync(<<"q">>)
       /\ attempts' = <<>> /\ hist' = <<>>
       /\ UNCHANGED pairVars /\ PairRest
    \/ /\ StreamRoundStart
       /\ Summarized
       /\ UNCHANGED <<histVars, script>> /\ PairRest
    \/ /\ PostSucceeds(IF mode = "stream" THEN NoBody
                       ELSE IF Invokes(Len(attempts) + 1) THEN CapResponse
                       ELSE LimitAnswer)
       /\ attempts' = Append(attempts, Success(NoBody))
       /\ UNCHANGED <<hist, agVars, pairVars>> /\ PairRest
    \/ /\ ConsumeFragment(IF Invokes(Len(attempts)) THEN CapFragment
                          ELSE Delta(<<"a">>, NoToolCalls, TRUE))
       /\ UNCHANGED <<histVars, pairVars>> /\ PairRest
    \/ /\ StreamReturned
       /\ Summarized
       /\ UNCHANGED <<histVars, script>> /\ PairRest
    \/ /\ StreamToolStep(CapResult)
       /\ hist' = Append(hist, NextInvocation(toolCalls, toolIndex))
       /\ UNCHANGED <<attempts, pairVars>> /\ PairRest
    \/ /\ ChatReturned
       /\ Summarized
       /\ UNCHANGED <<histVars, script>> /\ PairRest
    \/ /\ SyncToolStep(CapResult)
       /\ hist' = Append(hist, NextInvocation(toolCalls, toolIndex))
       /\ UNCHANGED <<attempts, pairVars>> /\ PairRest

PairInit == DecIdle /\ TrInit /\ AgInit

SpecPair == PairInit /\ [][NextPair]_vars

----------------------------------------------------------------------------
(* The transport on its own: a caller issues chat and chatStream calls and  *)
(* reads every fragment; the server answers each request as it likes.       *)
Bodies == {<<"response", 1>>, <<"response", 2>>}
Fragments == {[content |-> <<"a">>, done |-> FALSE], [content |-> <<>>, done |-> TRUE]}

RetryInit == DecIdle /\ TrInit /\ AgInit

NextRetry ==
    \/ \E strm \in BOOLEAN :
          /\ BeginCall(strm, messages)
          /\ attempts' = <<>>
          /\ UNCHANGED <<hist, decVars, envVars, bashVars, agVars, seenVars>>
    \/ \E e \in Conditions :
          /\ PostFails(e)
          /\ attempts' = Append(attempts, e)
          /\ UNCHANGED <<hist, decVars, envVars, bashVars, agVars, seenVars>>
    \/ \E b \in Bodies :
          /\ PostSucceeds(b)
          /\ attempts' = Append(attempts, Success(b))
          /\ UNCHANGED <<hist, decVars, envVars, bashVars, agVars, seenVars>>
    \/ BackoffElapsed /\ UNCHANGED <<histVars, decVars, envVars, bashVars, agVars, seenVars>>
    \/ \E f \in Fragments :
          /\ chunkCount < MaxChunks
          /\ StreamYield(f)
          /\ UNCHANGED <<histVars, decVars, envVars, bashVars, agVars, seenVars>>
    \/ /\ chunkCount < MaxChunks
       /\ StreamSkipsLine
       /\ UNCHANGED <<histVars, decVars, envVars, bashVars, agVars, seenVars>>
    \/ StreamEnds /\ UNCHANGED <<histVars, decVars, envVars, bashVars, agVars, seenVars>>
    \/ \E e \in StreamConditions :
          /\ StreamFails(e)
          /\ attempts' = Append(attempts, e)
          /\ UNCHANGED <<hist, decVars, envVars, bashVars, agVars, seenVars>>
    \/ CallSettled /\ UNCHANGED <<histVars, decVars, envVars, bashVars, agVars, seenVars>>

SpecRetry == RetryInit /\ [][NextRetry]_vars


----------------------------------------------------------------------------
(* The diagnostics record: calls, failures and clears of one client, with   *)
(* every failed attempt and every clear written to hist.                    *)
MaxEvents == 4

DiagConditions == {HttpError(404), HttpError(429), HttpError(503), NetError("ECONNRESET")}

FailEvent(e, pl) == [kind |-> "fail", e |-> e, payload |-> pl]
OkEvent(pl) == [kind |-> "ok", e |-> Success(NoBody), payload |-> pl]
ClearEvent == [kind |-> "clear", e |-> Success(NoBody), payload |-> NoPayload]

NextDiag ==
    \/ \E strm \in BOOLEAN :
          /\ BeginCall(strm, messages)
          /\ UNCHANGED <<histVars, decVars, envVars, bashVars, agVars, seenVars>>
    \/ \E e \in DiagConditions :
          /\ Len(hist) < MaxEvents
          /\ PostFails(e)
          /\ hist' = Append(hist, FailEvent(e, payload))
          /\ UNCHANGED <<attempts, decVars, envVars, bashVars, agVars, seenVars>>
    \/ /\ Len(hist) < MaxEvents
       /\ PostSucceeds(<<"response", 1>>)
       /\ hist' = Append(hist, OkEvent(payload))
       /\ UNCHANGED <<attempts, decVars, envVars, bashVars, agVars, seenVars>>
    \/ BackoffElapsed /\ UNCHANGED <<histVars, decVars, envVars, bashVars, agVars, seenVars>>
    \/ StreamEnds /\ UNCHANGED <<histVars, decVars, envVars, bashVars, agVars, seenVars>>
    \/ \E e \in StreamConditions :
          /\ Len(hist) < MaxEvents
          /\ StreamFails(e)
          /\ hist' = Append(hist, FailEvent(e, payload))
          /\ UNCHANGED <<attempts, decVars, envVars, bashVars, agVars, seenVars>>
    \/ CallSettled /\ UNCHANGED <<histVars, decVars, envVars, bashVars, agVars, seenVars>>
    \/ /\ Len(hist) < MaxEvents
       /\ clearLastErrorDetails
       /\ hist' = Append(hist, ClearEvent)
       /\ UNCHANGED <<attempts, decVars, envVars, bashVars, agVars, seenVars>>

SpecDiag == RetryInit /\ [][NextDiag]_vars


----------------------------------------------------------------------------
(* Claims about the argument decoder *)
\* C2: for every input string, safeJsonParse returns a mapping (an object)
\* and never raises, the inputs null, 5, [1] and "x" included.
DecoderTotality == dpc = "returned" => dval.t = "object"

----------------------------------------------------------------------------
(* Claims about the transport *)

\* the retryable conditions as the specification lists them
RetryableCondition(e) ==
    \/ e.status = 429
    \/ e.status \in 500..504
    \/ e.code \in {"ECONNREFUSED", "ETIMEDOUT"}
Failed(e) == e.status # 200
FailureCount == Cardinality({n \in 1..Len(attempts) : Failed(attempts[n])})
LastAttempt == attempts[Len(attempts)]

\* C6 (retry success): a chat or chatStream call whose first three attempts
\* fail with a retryable condition is still running after the third failure
\* (it has not raised), and when its fourth attempt succeeds it has issued
\* exactly 4 requests, has raised nothing, and chat hands the caller the
\* response of that fourth attempt.
RetrySuccess ==
    /\ (Len(attempts) = 3 /\ \A n \in 1..3 : Failed(attempts[n])
                                               /\ RetryableCondition(attempts[n]))
          => tpc \in {"backoff", "request"} /\ thrown = NoError
    /\ (Len(attempts) = 4 /\ ~Failed(attempts[4])
           /\ \A n \in 1..3 : Failed(attempts[n]) /\ RetryableCondition(attempts[n]))
          => /\ requests = 4
             /\ thrown = NoError
             /\ tpc \in {"stream", "returned", "idle"}
             /\ ~payload.stream => response = attempts[4].body

\* C6 witness: three HTTP 503 failures, then a success returned by chat
RetrySuccessWitness ==
    /\ Len(attempts) = 4
    /\ \A n \in 1..3 : attempts[n] = HttpError(503)
    /\ ~Failed(attempts[4])
    /\ tpc = "returned"
    /\ ~payload.stream
    /\ response = attempts[4].body

\* C7 (retry classification): a failed attempt is followed by a retry exactly
\* when its condition is retryable and fewer than 4 attempts have failed;
\* every other failure is raised, and a call whose first attempt fails with a
\* non-retryable condition raises after 1 request and no delay.
RetryClassification ==
    /\ tpc = "backoff" => RetryableCondition(LastAttempt) /\ FailureCount <= 3
    /\ tpc = "raised" => ~RetryableCondition(LastAttempt) \/ FailureCount = 4
    /\ (Len(attempts) >= 1 /\ Failed(attempts[1]) /\ ~RetryableCondition(attempts[1]))
          => /\ Len(attempts) = 1
             /\ tpc \in {"raised", "idle"}
             /\ thrown # NoError
             /\ requests = 1
             /\ delays = <<>>

\* C7 witness: HTTP 404 on the first attempt, raised at once
RetryClassificationWitness ==
    /\ attempts = <<HttpError(404)>>
    /\ tpc = "raised"
    /\ requests = 1
    /\ delays = <<>>

\* C8 (retry bound and backoff): a call issues at most 4 requests, the delay
\* before retry k is 2^(k-1) seconds for k = 1, 2, 3, and a call whose four
\* attempts all failed has raised an error carrying the message and the status
\* of the fourth failure.
RetryBound ==
    /\ requests <= 4
    /\ Len(delays) <= 3
    /\ \A k \in 1..Len(delays) : delays[k] = (2 ^ (k - 1)) * 1000
    /\ tpc = "request" => Len(delays) = requests
    /\ (Len(attempts) = 4 /\ \A n \in 1..4 : Failed(attempts[n]))
          => /\ tpc \in {"raised", "idle"}
             /\ thrown.message = MessageOf(attempts[4])
             /\ thrown.status = attempts[4].status

\* C8 witness: four HTTP 503 failures, raised after delays of 1 s, 2 s, 4 s
RetryBoundWitness ==
    /\ Len(attempts) = 4
    /\ \A n \in 1..4 : attempts[n] = HttpError(503)
    /\ tpc = "raised"
    /\ delays = <<1000, 2000, 4000>>
    /\ thrown.status = 503

\* the record the history calls for: the most recent failed attempt with a
\* status in 400..499 after the last clear, null when there is none
RECURSIVE ExpectedDetails(_)
ExpectedDetails(h) ==
    IF h = <<>> THEN Null
    ELSE LET ev == h[Len(h)] IN
        IF ev.kind = "clear" THEN Null
        ELSE IF ev.kind = "fail" /\ ev.e.status \in 400..499
        THEN [status |-> ev.e.status, message |-> MessageOf(ev.e),
              response |-> ev.e.body, payload |-> ev.payload]
        ELSE ExpectedDetails(SubSeq(h, 1, Len(h) - 1))

\* C9 (LastErrorDetails): after any sequence of calls and clears,
\* getLastErrorDetails returns the details (status, message, response,
\* payload) of the most recent failed attempt with a status in 400..499 since
\* the last clear, and null if there was none.
LastErrorRecord == lastErrorDetails = ExpectedDetails(hist)

\* C9 witness: a 404 of a chatStream call was overwritten by a 429 of a chat
\* call, which a later 503 left in place
LastErrorRecordWitness ==
    /\ Len(hist) >= 3
    /\ hist[Len(hist)].kind = "fail" /\ hist[Len(hist)].e.status = 503
    /\ \E i, j \in 1..Len(hist) :
          /\ i < j
          /\ hist[i].kind = "fail" /\ hist[i].e.status = 404 /\ hist[i].payload.stream
          /\ hist[j].kind = "fail" /\ hist[j].e.status = 429 /\ ~hist[j].payload.stream
    /\ lastErrorDetails # Null
    /\ lastErrorDetails.status = 429
    /\ ~lastErrorDetails.payload.stream

----------------------------------------------------------------------------
(* Claims about the agent loop *)
\* the index of the last user message of the log
LastUserIndex ==
    LET users == {n \in 1..Len(messages) : messages[n].role = "user"} IN
    IF users = {} THEN 0 ELSE CHOOSE n \in users : \A m \in users : n >= m
\* the tool rounds of the run: its assistant messages that carry invocations
RoundsOfRun ==
    Cardinality({n \in (LastUserIndex + 1)..Len(messages) :
                    messages[n].role = "assistant" /\ messages[n].tool_calls.items # <<>>})
ToolMessagesOfRun ==
    Cardinality({n \in (LastUserIndex + 1)..Len(messages) : messages[n].role = "tool"})
IsLimitNotice(c) ==
    /\ c.type \in {"content", "assistant"}
    /\ c.content # <<>>
    /\ c.content[Len(c.content)] = LimitText[1]
LimitNotices == Cardinality({n \in 1..Len(out) : IsLimitNotice(out[n])})
RunEnded == apc = "idle" /\ mode # "none"

\* C1: when every response carries invocations (no cancellation, no
\* exception), a run never starts a 51st tool round; it ends after exactly 50
\* rounds, with every invocation of those rounds dispatched, and reports
\* exactly one round-limit notice, in stream mode and in non-stream mode.
ToolRoundCap ==
    /\ RoundsOfRun <= 50
    /\ toolRounds = RoundsOfRun
    /\ RunEnded =>
          /\ RoundsOfRun = 50
          /\ ToolMessagesOfRun = 50 * Len(CapCalls)
          /\ LimitNotices = 1
          /\ mode = "stream" => out[Len(out)] = DoneChunk
    /\ ~RunEnded => LimitNotices = 0
ToolRoundCapWitness ==
    /\ RunEnded
    /\ mode = "stream"
    /\ RoundsOfRun = 50
    /\ LimitNotices = 1

\* the contents of the content chunks yielded since the round began
RECURSIVE ContentsOf(_, _)
ContentsOf(chunks, n) ==
    IF n > Len(chunks) THEN <<>>
    ELSE (IF chunks[n].type = "content" THEN <<chunks[n].content>> ELSE <<>>)
         \o ContentsOf(chunks, n + 1)
RoundContents == ContentsOf(SubSeq(out, roundMark + 1, Len(out)), 1)
\* the non-empty content strings of the fragments merged in the round
RECURSIVE ReceivedContents(_, _)
ReceivedContents(frags, n) ==
    IF n > Len(frags) THEN <<>>
    ELSE (IF frags[n].content # <<>> THEN <<frags[n].content>> ELSE <<>>)
         \o ReceivedContents(frags, n + 1)
RECURSIVE Concat(_, _)
Concat(texts, n) == IF n > Len(texts) THEN <<>> ELSE texts[n] \o Concat(texts, n + 1)

\* C3: within one round of a streaming run, the content chunks emitted are
\* the content strings of the fragments received, in the same order and each
\* exactly once, and their concatenation equals the content accumulated by
\* messageReducer.
AggregatorOrder ==
    apc = "streaming" =>
        /\ RoundContents = ReceivedContents(consumed, 1)
        /\ Concat(RoundContents, 1) = ContentOrEmpty(accumulatedMessage)
AggregatorOrderWitness ==
    /\ apc = "streaming"
    /\ RoundContents = <<<<"a">>, <<"b">>>>
    /\ accumulatedMessage.content = <<"a", "b">>

IsSummary(m) ==
    /\ m.role = "assistant"
    /\ m.content # Undefined /\ m.content # <<>>
    /\ m.content[1] = "[Context Summary] Previous conversation included:"
CompactionTriggered ==
    /\ countMessageTokens(compaction.before, 1) > TokenThreshold
    /\ Len(compaction.before) > 10

\* the submitted log with a tool message of no content as its second message:
\* the digest of such a log throws, and summarizeContext takes its catch block
Undigestible(msgs) ==
    <<msgs[1], Message("tool", Undefined, NoToolCalls, <<"c", "1">>)>>
        \o SubSeq(msgs, 3, Len(msgs))
Preserved(before, after) ==
    /\ Len(after) >= 7
    /\ after[1] = before[1]
    /\ LastOf(after, 6) = LastOf(before, 6)

DropsMiddle(msgs) ==
    summarizeContext(msgs) = <<msgs[1]>> \o LastOf(msgs, 6)

\* C4 compaction preservation: whenever a submission's compaction changed the
\* log, message 0 of the log is the message 0 it had before, and the last 6
\* messages after are the last 6 messages before, in the same order; the
\* same holds of the log the catch block leaves, which drops the middle.
CompactionPreserves ==
    compaction.after # compaction.before =>
        /\ compaction.after[1] = SystemMessage
        /\ Preserved(compaction.before, compaction.after)
        /\ DropsMiddle(Undigestible(compaction.before))
\* a second compaction: the summarized middle itself starts with a summary
CompactionPreservesWitness ==
    /\ compaction.after # compaction.before
    /\ IsSummary(compaction.before[2])
    /\ messages = compaction.after

\* C5 compaction size: whenever the token estimate of the submitted log
\* exceeds 15000 and the log holds n > 10 messages, the log left is the system
\* message, one summary message and the last 6: 8 messages, fewer than n.
CompactionSize ==
    CompactionTriggered =>
        /\ Len(compaction.after) = 8
        /\ Len(compaction.after) < Len(compaction.before)
        /\ IsSummary(compaction.after[2])
\* the 12 messages of the example compact to 8
CompactionSizeWitness ==
    /\ CompactionTriggered
    /\ Len(compaction.before) = 12
    /\ Len(compaction.after) = 8
    /\ messages = compaction.after

\* the tool messages that follow the assistant message at n, up to the next
\* message that is not a tool message
RECURSIVE ResultsAfter(_, _)
ResultsAfter(msgs, n) ==
    IF n + 1 > Len(msgs) \/ msgs[n + 1].role # "tool" THEN <<>>
    ELSE <<msgs[n + 1]>> \o ResultsAfter(msgs, n + 1)
Paired(msgs) ==
    \A n \in 1..Len(msgs) :
        \A i \in 1..Len(msgs[n].tool_calls.items) :
            Cardinality({r \in 1..Len(ResultsAfter(msgs, n)) :
                            ResultsAfter(msgs, n)[r].tool_call_id
                                = msgs[n].tool_calls.items[i].id}) = 1
\* a round starts: the request carrying the log is about to be sent
RoundStarts == apc \in {"streaming", "chat"} /\ tpc = "request" /\ requests = 0

\* C10: at the start of every round, after any sequence of rounds and
\* cancellations, every invocation of every assistant message in the log has
\* exactly one tool-result message with its identifier.
InvocationsPaired == RoundStarts => Paired(messages)


\* C11: every tool message of the log carries a defined tool_call_id, and an
\* assistant message earlier in the log holds an invocation with that id.
ToolMessagesReferenced ==
    \A n \in 1..Len(messages) :
        messages[n].role = "tool" =>
            /\ messages[n].tool_call_id # Undefined
            /\ \E m \in 1..(n - 1) :
                  /\ messages[m].role = "assistant"
                  /\ \E i \in 1..Len(messages[m].tool_calls.items) :
                        messages[m].tool_calls.items[i].id = messages[n].tool_call_id

\* C12: the log is never empty and its first message is the system message
\* the constructor created.
SystemMessageFirst ==
    /\ Len(messages) >= 1
    /\ messages[1] = SystemMessage
    /\ messages[1].role = "system"
\* a log that was compacted, in a run that was then cancelled
SystemMessageFirstWitness ==
    /\ compaction.after # compaction.before
    /\ messages[1] = SystemMessage
    /\ IsSummary(messages[2])
    /\ Len(messages) > 8
    /\ apc = "idle"
    /\ out[Len(out) - 1] = CancelNotice

IsToolMessage(m) == m.role = "tool"
IsInvoking(m) == m.role = "assistant" /\ m.tool_calls.items # <<>>
IdsOf(calls) == [i \in 1..Len(calls) |-> calls[i].id]
ToolIdsOf(msgs) == [i \in 1..Len(msgs) |-> msgs[i].tool_call_id]
\* the position of the last assistant message that carries invocations
LastInvoking ==
    CHOOSE a \in 1..Len(messages) :
        /\ IsInvoking(messages[a])
        /\ \A b \in (a + 1)..Len(messages) : ~IsInvoking(messages[b])

\* C13: the invocations of a round are dispatched one at a time in the order
\* of the assistant message: while the tool loop runs, the log ends with that
\* message followed by the tool messages of the invocations dispatched so far,
\* in invocation order, and the next dispatch is the invocation after them.
SequentialDispatch ==
    /\ ToolIdsOf(SelectSeq(messages, IsToolMessage))
            = [i \in 1..Len(hist) |-> hist[i].call.id]
    /\ \A i \in 1..Len(hist) :
            hist[i].call = ToolsCalls[((i - 1) % Len(ToolsCalls)) + 1]
    /\ apc = "tools" =>
            /\ toolIndex \in 1..Len(toolCalls)
            /\ messages[LastInvoking].tool_calls.items = toolCalls
            /\ Len(messages) = LastInvoking + toolIndex - 1
            /\ ToolIdsOf(ResultsAfter(messages, LastInvoking))
                    = IdsOf(SubSeq(toolCalls, 1, toolIndex - 1))
SequentialDispatchWitness ==
    /\ apc = "tools" /\ mode = "sync"
    /\ toolRounds = 2
    /\ toolIndex = 3
    /\ ToolIdsOf(ResultsAfter(messages, LastInvoking)) = <<<<"t", "1">>, <<"t", "2">>>>

\* what the tool message of a dispatch holds
ExpectedContent(result) ==
    IF result.success
    THEN (IF result.output \in {Undefined, <<>>} THEN <<"Success">> ELSE result.output)
    ELSE (IF result.error \in {Undefined, <<>>} THEN <<"Error">> ELSE result.error)
FailedDispatches == {i \in 1..Len(hist) : ~hist[i].result.success}

\* C17: a dispatch that fails (arguments that do not decode, a missing path,
\* an unknown tool, a tool that reports an error) yields a ToolResult with
\* success = false whose error text is the content of the tool message
\* appended for that invocation; the invocations after it are dispatched as
\* well, and when the last one is done the loop goes on to the next round.
FailureContained ==
    /\ \A i \in 1..Len(hist) :
          /\ hist[i].call.id \in {<<"t", "1">>, <<"t", "3">>} => i \in FailedDispatches
          /\ SelectSeq(messages, IsToolMessage)[i].content = ExpectedContent(hist[i].result)
          /\ SelectSeq(messages, IsToolMessage)[i].tool_call_id = hist[i].call.id
    /\ apc = "tools" => toolIndex \in 1..Len(toolCalls)
    /\ apc # "tools" => Len(hist) = toolRounds * Len(ToolsCalls)
    /\ (apc # "tools" /\ Len(hist) > 0 /\ mode # "none" /\ apc # "idle") =>
            \/ mode = "stream" /\ apc \in {"round", "streaming"}
            \/ mode = "sync" /\ apc = "chat"
\* a second round after a round in which every dispatch failed
FailureContainedWitness ==
    /\ toolRounds = 2
    /\ apc = "tools" /\ mode = "stream"
    /\ FailedDispatches = 1..Len(ToolsCalls)

\* the step is taken at a checkpoint of a stream run whose abort flag is set:
\* the head of a round, a fragment handed to the loop, the head of a tool
\* iteration
CheckpointObserves ==
    /\ mode = "stream" /\ abortController = "aborted"
    /\ \/ apc = "round" /\ LoopContinues(toolRounds)
       \/ apc = "tools"
       \/ apc = "streaming" /\ tpc = "stream" /\ chunkCount' # chunkCount

\* C14: a step that observes the abort flag at a checkpoint appends nothing to
\* the log, sends no request, emits the cancellation notice and done, and
\* leaves the run ended; an ended run merges, dispatches, requests and
\* appends nothing until the next message is submitted.
CancelStops ==
    [][/\ CheckpointObserves =>
            /\ messages' = messages
            /\ out' = out \o <<CancelNotice, DoneChunk>>
            /\ apc' = "idle" /\ tpc' = "idle"
            /\ requests' = requests
            /\ accumulatedMessage' = EmptyAccumulator
       /\ (apc = "idle" /\ apc' = "idle") =>
            UNCHANGED <<messages, out, requests, accumulatedMessage, toolIndex>>]_vars
\* the flag was observed before the first tool of a round was dispatched
CancelStopsWitness ==
    /\ apc = "idle" /\ mode = "stream"
    /\ Len(out) >= 2
    /\ out[Len(out) - 1] = CancelNotice /\ out[Len(out)] = DoneChunk
    /\ IsInvoking(messages[Len(messages)])

\* C15: a stream run that ends while its abort flag is set (the flag is set
\* by abortCurrentOperation during the run and cleared only when the run
\* ends) has emitted the cancellation notice right before its done chunk.
CancelNeverSilent ==
    [][(mode = "stream" /\ abortController = "aborted" /\ apc # "idle" /\ apc' = "idle") =>
            /\ out'[Len(out')] = DoneChunk
            /\ out'[Len(out') - 1] = CancelNotice]_vars

IsErrorReport(c) ==
    /\ c.type \in {"content", "assistant"}
    /\ c.content # <<>>
    /\ c.content[1] = "Sorry, I encountered an error: "
\* the log ends with the assistant message that answers the user
FinalAnswer ==
    /\ messages[Len(messages)].role = "assistant"
    /\ ~IsInvoking(messages[Len(messages)])
\* what an ended run has told its caller
EndedWithReport ==
    /\ mode = "stream" =>
          /\ out[Len(out)] = DoneChunk
          /\ \/ FinalAnswer
             \/ out[Len(out) - 1] \in {CancelNotice, LimitNotice}
             \/ IsErrorReport(out[Len(out) - 1])
    /\ mode = "sync" =>
          /\ out[Len(out)].type = "assistant"
          /\ FinalAnswer \/ IsLimitNotice(out[Len(out)]) \/ IsErrorReport(out[Len(out)])
\* the step by which the loop handles an exception of the transport
TransportRaised ==
    /\ apc \in {"streaming", "chat"} /\ tpc = "raised"
    /\ abortController # "aborted"
    /\ apc' # apc

\* C16: when the transport raised and the run was not cancelled, the run
\* ends at once: one chunk (stream) or entry (non-stream) with the error
\* message, then done; nothing is appended to the log, no request is sent and
\* no tool is dispatched.  Every ended run has a final answer, a limit notice,
\* a cancellation notice or an error message.
FailureSemantics ==
    /\ [](RunEnded => EndedWithReport)
    /\ [][TransportRaised =>
            /\ apc' = "idle" /\ tpc' = "idle"
            /\ messages' = messages
            /\ requests' = requests
            /\ toolIndex' = 0
            /\ mode = "stream" =>
                  out' = out \o <<ContentChunk(ErrorText(thrown)), DoneChunk>>
            /\ mode = "sync" =>
                  out' = <<out[1], AssistantEntry(ErrorText(thrown), <<>>)>>]_vars
\* the retries of the second round's request were exhausted
FailureSemanticsWitness ==
    /\ RunEnded /\ mode = "stream"
    /\ toolRounds = 1
    /\ requests = maxRetries + 1
    /\ IsErrorReport(out[Len(out) - 1])

\* the authorization of the step a call takes: the answer to its request once
\* it has asked, the session flags before
StepAuthorized ==
    IF bpc = "confirm" THEN confirmationResult'.confirmed
    ELSE IF isDangerousCommand(command) THEN sessionFlags.allOperations
    ELSE sessionFlags.bashCommands \/ sessionFlags.allOperations

SlotCount(frags) ==
    IF \A n \in 1..Len(frags) : frags[n].tool_calls.items = <<>> THEN 0
    ELSE CHOOSE k \in 1..2 :
            /\ \E n \in 1..Len(frags) : Len(frags[n].tool_calls.items) = k
            /\ \A n \in 1..Len(frags) : Len(frags[n].tool_calls.items) <= k

\* the texts the fragments n.. carry for a field at position i, joined in order
RECURSIVE FieldText(_, _, _, _)
FieldText(frags, n, i, field) ==
    IF n > Len(frags) THEN Undefined
    ELSE IF i > Len(frags[n].tool_calls.items)
            \/ frags[n].tool_calls.items[i][field] = Undefined
         THEN FieldText(frags, n + 1, i, field)
    ELSE IF FieldText(frags, n + 1, i, field) = Undefined
         THEN frags[n].tool_calls.items[i][field]
    ELSE frags[n].tool_calls.items[i][field] \o FieldText(frags, n + 1, i, field)

MergeExample ==
    << Delta(<<>>, ToolCalls(<<NamePiece>>), FALSE),
       Delta(<<>>, ToolCalls(<<HeadPiece>>), FALSE),
       Delta(<<>>, ToolCalls(<<TailPiece>>), FALSE) >>
MergedExample ==
    ToolCall(Undefined, BashName,
             <<LB, Q, "c", "o", "m", "m", "a", "n", "d", Q, COLON, Q, "l", "s", Q, RB>>)

\* C19: while a round streams, the accumulator has as many invocations as the
\* longest tool_calls array among the fragments consumed, and each field of
\* invocation i is the concatenation, in fragment order, of the texts the
\* fragments carried for that field at position i; the fragments with the
\* name bash, then {"command" and then :"ls"} give the one invocation bash
\* with arguments {"command":"ls"}.
PositionalMerge ==
    apc = "streaming" =>
        /\ Len(accumulatedMessage.tool_calls.items) = SlotCount(consumed)
        /\ \A i \in 1..Len(accumulatedMessage.tool_calls.items) :
              \A field \in {"id", "name", "arguments"} :
                  accumulatedMessage.tool_calls.items[i][field]
                      = FieldText(consumed, 1, i, field)
        /\ consumed = MergeExample =>
              accumulatedMessage.tool_calls.items = <<MergedExample>>

PositionalMergeWitness ==
    /\ apc = "streaming"
    /\ consumed = MergeExample
    /\ accumulatedMessage.tool_calls.items = <<MergedExample>>

\* the text s with every bare newline, tab and carriage return that stands
\* inside a string literal written as its escape
RECURSIVE EscapeBare(_, _, _)
EscapeBare(s, n, inside) ==
    IF n > Len(s) THEN <<>>
    ELSE IF inside /\ s[n] = BSL /\ n < Len(s)
         THEN <<s[n], s[n + 1]>> \o EscapeBare(s, n + 2, inside)
    ELSE IF s[n] = Q THEN <<Q>> \o EscapeBare(s, n + 1, ~inside)
    ELSE IF inside /\ s[n] \in {LF, TAB, CR}
         THEN <<BSL, CASE s[n] = LF -> "n" [] s[n] = TAB -> "t" [] OTHER -> "r">>
              \o EscapeBare(s, n + 1, inside)
    ELSE <<s[n]>> \o EscapeBare(s, n + 1, inside)

\* what the text denotes once its bare control characters are escaped
Denoted(s) == JsonParse(EscapeBare(s, 1, FALSE))

\* a JSON object except for bare control characters inside its string values
NeedsControlRepair(s) ==
    /\ ~JsonParse(s).ok
    /\ Denoted(s).ok
    /\ Denoted(s).v.t = "object"

\* C20: a raw argument string that is a JSON object except for bare newline,
\* tab or carriage-return characters inside its string values decodes to the
\* mapping it denotes with those characters escaped.
ControlRepair ==
    (dpc = "returned" /\ NeedsControlRepair(raw)) => dval = Denoted(raw).v

\* the same for the values without escape sequences, as in the example
ControlRepairPlain ==
    (dpc = "returned" /\ NeedsControlRepair(raw) /\ \A n \in 1..Len(raw) : raw[n] # BSL)
        => dval = Denoted(raw).v

\* the run ended on a response without invocations
EndedByAnswer ==
    /\ RunEnded
    /\ messages[Len(messages)].role = "assistant"
    /\ messages[Len(messages)].tool_calls.items = <<>>
\* the run dispatched every invocation of 50 rounds
ExecutedAllRounds ==
    /\ RunEnded
    /\ RoundsOfRun = maxToolRounds
    /\ ToolMessagesOfRun = maxToolRounds * Len(CapCalls)

\* C21: the limit notice is reported at most once, only at the end of a run
\* whose round counter has reached the cap (in stream mode just before done);
\* a run that ended on a response without invocations reports none, and a run
\* that executed 50 tool rounds reports exactly one.
LimitNoticeIff ==
    /\ LimitNotices <= 1
    /\ LimitNotices = 1 =>
          /\ RunEnded
          /\ toolRounds = maxToolRounds
          /\ mode = "stream" =>
                out[Len(out)] = DoneChunk /\ IsLimitNotice(out[Len(out) - 1])
    /\ EndedByAnswer => LimitNotices = 0
    /\ ExecutedAllRounds => LimitNotices = 1

\* the same without the last conjunct for runs of processUserMessage
LimitNoticeIffStream ==
    /\ LimitNotices <= 1
    /\ LimitNotices = 1 => RunEnded /\ toolRounds = maxToolRounds
    /\ EndedByAnswer => LimitNotices = 0
    /\ (ExecutedAllRounds /\ mode = "stream") => LimitNotices = 1

\* the step takes the response of the model: the assistant message is appended
TakesResponse ==
    /\ Len(messages') = Len(messages) + 1
    /\ messages'[Len(messages')].role = "assistant"
\* the invocations the response carries
ResponseCalls ==
    IF mode = "sync" THEN response.tool_calls.items
    ELSE accumulatedMessage.tool_calls.items
\* the step takes a user message
TakesUserMessage == apc = "idle" /\ apc' # "idle"

\* C22: the round counter is 0 after the step that takes a user message, grows
\* by exactly 1 in the step that takes a response with one or more
\* invocations, and is left alone by the step that takes a response without
\* invocations and by every other step.
RoundCounter ==
    [][ /\ TakesUserMessage => toolRounds' = 0
        /\ (TakesResponse /\ ResponseCalls # <<>>) => toolRounds' = toolRounds + 1
        /\ (TakesResponse /\ ResponseCalls = <<>>) => toolRounds' = toolRounds
        /\ (~TakesUserMessage /\ ~TakesResponse) => toolRounds' = toolRounds ]_vars

RoundCounterWitness ==
    /\ Runs = 2
    /\ toolRounds = 1
    /\ ToolMessagesOfRun = 2
    /\ Cardinality({n \in 1..LastUserIndex :
                       messages[n].role = "assistant"
                       /\ messages[n].tool_calls.items # <<>>}) = 2
    /\ apc = "idle"
    /\ messages[Len(messages)].role = "assistant"

\* the positions of out that hold the chunks of a type yielded by the round
RoundChunks(type) == {n \in (roundMark + 1)..Len(out) : out[n].type = type}
\* the accumulator holds an invocation with a non-empty name
NamedInvocation ==
    \E i \in 1..Len(accumulatedMessage.tool_calls.items) :
        /\ accumulatedMessage.tool_calls.items[i].name # Undefined
        /\ accumulatedMessage.tool_calls.items[i].name # <<>>

\* C23: a round yields at most one tool_calls chunk; while it streams it has
\* yielded the chunk exactly when the accumulator holds an invocation with a
\* non-empty name; a round that dispatches tools has yielded exactly one,
\* before each of its tool_result chunks; a round that ended the run on a
\* response without invocations has yielded none.
ToolCallsNotified ==
    /\ Cardinality(RoundChunks("tool_calls")) <= 1
    /\ apc = "streaming" => (RoundChunks("tool_calls") # {} <=> NamedInvocation)
    /\ (apc = "tools" \/ RoundChunks("tool_result") # {}) =>
          /\ Cardinality(RoundChunks("tool_calls")) = 1
          /\ \A r \in RoundChunks("tool_result") :
                \E c \in RoundChunks("tool_calls") : c < r
    /\ EndedByAnswer => RoundChunks("tool_calls") = {}

ToolCallsNotifiedWitness ==
    /\ apc = "tools"
    /\ toolRounds = 2
    /\ consumed = << Delta(<<>>, ToolCalls(<<HeadPiece>>), FALSE),
                     Delta(<<>>, ToolCalls(<<NamePiece>>), FALSE),
                     Delta(<<"a">>, NoToolCalls, FALSE) >>
    /\ out[roundMark + 1].type = "tool_calls"
    /\ \E n \in 1..roundMark : out[n].type = "tool_result"

\* ---- C24 ----
\* the value held at a path of field names, JUndefined when the path is absent
RECURSIVE HeldAt(_, _)
HeldAt(v, path) ==
    IF path = <<>>
    THEN v
    ELSE IF v.t = "object" /\ ObjHas(v, Head(path))
         THEN HeldAt(ObjGet(v, Head(path)), Tail(path))
         ELSE JUndefined

ScalarPaths == {<<<<"n">>>>, <<<<"f">>, <<"n">>>>}
HoldsScalar(v, path) == HeldAt(v, path).t \in {"number", "true", "false"}

\* a field holding a number or a boolean keeps it through every later fragment
ScalarKept ==
    [][\A path \in ScalarPaths :
           HoldsScalar(accumulatedMessage.v, path) /\ accumulatedMessage'.ok
               => HeldAt(accumulatedMessage'.v, path)
                      = HeldAt(accumulatedMessage.v, path)]_vars

\* C24: a field of the accumulator that holds a non-string scalar keeps the
\* value of the first fragment that set it whatever later fragments carry for
\* it, and no fragment makes messageReducer fail.
ScalarSetOnce ==
    [][/\ accumulatedMessage'.ok
       /\ \A path \in ScalarPaths :
              HoldsScalar(accumulatedMessage.v, path)
                  => HeldAt(accumulatedMessage'.v, path)
                         = HeldAt(accumulatedMessage.v, path)]_vars

\* a later fragment carried another value for a field holding a scalar
ScalarKeptWitness ==
    /\ accumulatedMessage.ok
    /\ Len(consumed) = 2
    /\ consumed[1] = Field(<<"n">>, JNum(<<"5">>))
    /\ consumed[2] = Field(<<"n">>, JStr(<<"x">>))
    /\ HeldAt(accumulatedMessage.v, <<<<"n">>>>) = JNum(<<"5">>)

\* the fragment {f: null} after {f: {n: 5}} made the reducer raise
ScalarRaised ==
    /\ ~accumulatedMessage.ok
    /\ Len(consumed) = 2
    /\ consumed[1] = Field(<<"f">>, Field(<<"n">>, JNum(<<"5">>)))
    /\ consumed[2] = Field(<<"f">>, JNull)

\* ---- C25 ----
OverBudget(msgs) == countMessageTokens(msgs, 1) > TokenThreshold

\* C25 compaction trigger: a submission changes the log it tests only when its
\* token estimate exceeds 15000 and it holds more than 10 messages; when
\* either condition fails the log is left exactly as it was.
CompactionTrigger ==
    /\ compaction.after # compaction.before =>
           OverBudget(compaction.before) /\ Len(compaction.before) > 10
    /\ ~OverBudget(compaction.before) \/ Len(compaction.before) <= 10 =>
           compaction.after = compaction.before
\* a log over the budget that holds too few messages is left as it was
CompactionTriggerWitness ==
    /\ compaction.runs > 1
    /\ OverBudget(compaction.before)
    /\ Len(compaction.before) \in 4..10
    /\ compaction.after = compaction.before
    /\ messages = compaction.after
\* a log of more than 10 messages within the budget is left as it was
CompactionTriggerShort ==
    /\ ~OverBudget(compaction.before)
    /\ Len(compaction.before) > 10
    /\ compaction.after = compaction.before
    /\ messages = compaction.after

\* ---- C26 ----
\* C26 compaction keeps the conversation within the budget: whenever the
\* conversation is sent to the transport and holds more than 10 messages, its
\* token estimate is at most 15000.
SentWithinBudget ==
    tpc = "request" /\ Len(messages) > 10 => ~OverBudget(messages)

\* the same for the log a streaming submission leaves: more than 10 messages
\* are never left over the budget by the submission itself
SubmittedWithinBudget ==
    compaction.runs > 0 /\ Len(compaction.after) > 10 => ~OverBudget(compaction.after)

\* ---- C27 ----
IsPrefixOf(s, t) == Len(s) <= Len(t) /\ SubSeq(t, 1, Len(s)) = s

\* the step is a streaming submission whose summarizeContext rewrote the log
\* after the user message was appended
SummarizingStep ==
    /\ apc = "idle" /\ apc' = "round" /\ mode' = "stream"
    /\ compaction'.runs = compaction.runs + 1
    /\ compaction'.after # compaction'.before
    /\ IsPrefixOf(messages, compaction'.before)
    /\ Len(compaction'.before) = Len(messages) + 1
    /\ messages' = compaction'.after

\* C27 the message log is append-only outside compaction: every step other
\* than summarizeContext leaves the messages appended so far in place and
\* unchanged, the old log being a prefix of the new one.
AppendOnly == [][IsPrefixOf(messages, messages') \/ SummarizingStep]_vars

\* a log that grew by a user message, an assistant message with an invocation,
\* its tool result and the final answer, then took a failed run
AppendOnlyWitness ==
    /\ compaction.runs = 2
    /\ compaction.after = compaction.before
    /\ apc = "idle"
    /\ Len(messages) = 6
    /\ messages[3].role = "assistant" /\ messages[4].role = "tool"
    /\ messages[6].role = "user"

\* ---- C28 ----
\* the step in which the round takes the exhausted stream and settles its
\* invocations
SettlesRound == apc = "streaming" /\ tpc = "returned" /\ apc' # "streaming"
SettledCalls == IF apc' = "tools" THEN toolCalls' ELSE <<>>
ChannelCalls == accumulatedMessage.tool_calls.items
FencedCalls == BlockScan(ContentOrEmpty(accumulatedMessage), 1, <<>>, idCount)
DirectYields ==
    LET parsed == JsonParse(ContentOrEmpty(accumulatedMessage))
    IN  parsed.ok /\ LooksLikeToolCall(parsed.v)
DirectCall ==
    <<ToolCallFrom(JsonParse(ContentOrEmpty(accumulatedMessage)).v, idCount)>>

\* C28 fallback invocation detection: the content is consulted only when the
\* tool_calls channel is empty; the fenced blocks are scanned first and the
\* whole content is parsed only when no block yielded an invocation; the round
\* is concluded without invocations only when the channel, the block scan and
\* the direct parse all yield none.
FallbackDetection ==
    [][SettlesRound =>
          /\ ChannelCalls # <<>> =>
                 SettledCalls = ChannelCalls /\ idCount' = idCount
          /\ ChannelCalls = <<>> /\ FencedCalls # <<>> =>
                 SettledCalls = FencedCalls
          /\ ChannelCalls = <<>> /\ FencedCalls = <<>> /\ DirectYields =>
                 SettledCalls = DirectCall
          /\ SettledCalls = <<>> =>
                 ChannelCalls = <<>> /\ FencedCalls = <<>> /\ ~DirectYields]_vars

\* the channel was empty, no block yielded an invocation, and the round
\* dispatches the invocation the whole content parsed to
FallbackDetectionWitness ==
    /\ apc = "tools"
    /\ accumulatedMessage.tool_calls.items = <<>>
    /\ accumulatedMessage.content = CallJson
    /\ Len(toolCalls) = 1
    /\ toolCalls[1].name = BashName
    /\ toolCalls[1].id = FreshId(0)
\* the channel held an invocation while the content held another
FallbackChannelFirst ==
    /\ apc = "tools"
    /\ accumulatedMessage.tool_calls.items = <<ModelCall>>
    /\ accumulatedMessage.content = CallJson
    /\ toolCalls = <<ModelCall>>
\* the invocation of a fenced block is dispatched
FallbackFenced ==
    /\ apc = "tools"
    /\ accumulatedMessage.tool_calls.items = <<>>
    /\ accumulatedMessage.content = FenceOpen \o <<LF>> \o CallJson \o <<LF>> \o Fence
    /\ Len(toolCalls) = 1
    /\ toolCalls[1].name = BashName

\* ---- C29 ----
StageOrder == <<"direct", "repair", "manual">>

\* C29 decoder stage order: a stage of safeJsonParse runs only if the stage
\* before it raised; a raw string that parses directly is returned as that
\* parse result with no repair or extraction applied, and the manual
\* extraction runs only when the direct and the repaired parse both raised.
DecoderStageOrder ==
    /\ IsPrefixOf(dstages, StageOrder)
    /\ Len(dstages) >= 2 => ~DirectParse(raw).ok
    /\ Len(dstages) = 3 => ~DirectParse(raw).ok /\ ~RepairParse(raw).ok
    /\ dpc = "returned" /\ raw # <<>> /\ DirectParse(raw).ok =>
           dstages = <<"direct">> /\ dval = DirectParse(raw).v
    /\ dpc = "returned" /\ raw # <<>> /\ ~DirectParse(raw).ok /\ RepairParse(raw).ok =>
           dstages = <<"direct", "repair">> /\ dval = RepairParse(raw).v
\* an object that parses directly is returned after the first stage alone
DecoderStageOrderWitness ==
    /\ dpc = "returned"
    /\ dstages = <<"direct">>
    /\ dval.t = "object" /\ dval # EmptyObject
    /\ dval = DirectParse(raw).v
\* all three stages ran
DecoderStageOrderManual ==
    /\ dpc = "returned"
    /\ dstages = StageOrder
    /\ dval # EmptyObject

\* ---- C30 ----
ManualTokens == QuotedTokens(raw, 1)
\* the manual extraction returned and its key/value scan had found nothing
ManualFellBack ==
    /\ dpc = "returned"
    /\ dstages = StageOrder
    /\ KeyValueScan(raw, 1, <<>>) = <<>>
\* token 2i is a key whose value is token 2i+1, unless a later pair sets the
\* same key again
PairedAt(i) ==
    LET key == ManualTokens[2 * i + 1]
        later == {j \in (i + 1)..(Len(ManualTokens) \div 2 - 1) :
                     ManualTokens[2 * j + 1] = key}
    IN  later = {} =>
            ObjHas(dval, key) /\ ObjGet(dval, key) = JStr(ManualTokens[2 * i + 2])

\* C30 manual extraction fallback: when the raw string holds no key/value
\* pair pattern, the quoted tokens are paired positionally, token 2i a key and
\* token 2i+1 its value, for every i for which both exist, whatever the number
\* of quoted tokens.
ManualPairing ==
    ManualFellBack =>
        \A i \in 0..(Len(ManualTokens) \div 2 - 1) : PairedAt(i)

\* the same for an even number of quoted tokens
ManualPairingEven ==
    ManualFellBack /\ Len(ManualTokens) % 2 = 0 =>
        \A i \in 0..(Len(ManualTokens) \div 2 - 1) : PairedAt(i)
\* two quoted tokens were paired
ManualPairingEvenWitness ==
    /\ ManualFellBack
    /\ Len(ManualTokens) = 2
    /\ Len(dval.kv) = 1

\* ---- C31 ----
\* the fragments of a text of newline-delimited JSON: one for each complete
\* line that parses, in order, up to and including the first flagged done
CompleteLines(text) == SubSeq(SplitLines(text), 1, Len(SplitLines(text)) - 1)
LineFragment(line) == ConvertLine(JsonParse(line).v)
YieldsFragment(line) == JsonParse(line).ok /\ JsonParse(line).v.t # "null"
RECURSIVE FragmentsOf(_, _)
FragmentsOf(lines, i) ==
    IF i > Len(lines) THEN <<>>
    ELSE IF ~YieldsFragment(lines[i]) THEN FragmentsOf(lines, i + 1)
    ELSE IF LineFragment(lines[i]).done THEN <<LineFragment(lines[i])>>
    ELSE <<LineFragment(lines[i])>> \o FragmentsOf(lines, i + 1)

StreamTerminationDone ==
    /\ tpc = "returned"
    /\ Len(consumed) = 2
    /\ consumed[2] = Delta(<<>>, NoToolCalls, TRUE)
    /\ Len(received) > 60

\* ---- C32 ----
\* the tool loop of a round is under way
Dispatching == apc = "tools"

\* C32: every invocation dispatched in a round has a defined id, and the ids
\* of the invocations of one round are pairwise distinct, whether they came
\* through the tool_calls channel or from the content.
DispatchedIds ==
    Dispatching =>
        /\ \A n \in 1..Len(toolCalls) : toolCalls[n].id # Undefined
        /\ \A n, m \in 1..Len(toolCalls) : n # m => toolCalls[n].id # toolCalls[m].id

\* the same for the invocations taken from the content
DispatchedFallbackIds ==
    Dispatching /\ accumulatedMessage.tool_calls.items = <<>> =>
        /\ \A n \in 1..Len(toolCalls) : toolCalls[n].id # Undefined
        /\ \A n, m \in 1..Len(toolCalls) : n # m => toolCalls[n].id # toolCalls[m].id

\* ---- C33 ----
ToolMessagesOf(msgs) == SelectSeq(msgs, LAMBDA m : m.role = "tool")

\* C33 tool routing: an invocation whose name is a built-in tool is handled by
\* the case of that tool; otherwise a name starting with mcp__ is routed to the
\* external registry; any other name returns the failed result
\* 'Unknown tool: <name>' without calling any tool, and the round continues:
\* every dispatch leaves its tool message in the log.
ToolRouting ==
    /\ \A n \in 1..Len(hist) :
          LET r == hist[n]
              called == r.target \notin {<<"invalid">>, <<"raised">>,
                                         <<"raised in executeMCPTool">>, <<"none">>}
          IN  /\ called => r.result = r.ext
              /\ r.call.name \in BuiltInNames =>
                     r.target \in {r.call.name, <<"invalid">>, <<"raised">>}
              /\ r.call.name \notin BuiltInNames /\ IsMcpName(r.call.name) =>
                     r.target \in {<<"mcpManager.callTool">>, <<"raised in executeMCPTool">>}
              /\ r.call.name \notin BuiltInNames /\ ~IsMcpName(r.call.name)
                 /\ ~IsNoString(r.call.name) =>
                     /\ ~called
                     /\ r.result = Failure(<<"Unknown tool: ">> \o r.call.name)
    /\ Len(ToolMessagesOf(messages)) = Len(hist)
    /\ \A n \in 1..Len(hist) :
          ToolMessagesOf(messages)[n] = ToolMessage(hist[n].call, hist[n].result)
\* an unknown name was answered with the failure and the next invocation of
\* the same round was dispatched to its tool
ToolRoutingWitness ==
    /\ Len(hist) = 2
    /\ toolRounds = 1
    /\ hist[1].call.name = <<"x">>
    /\ hist[1].result = Failure(<<"Unknown tool: ", "x">>)
    /\ hist[2].target = BashName
    /\ hist[2].result = hist[2].ext
\* a name with the prefix reached the registry
ToolRoutingMcp ==
    /\ Len(hist) = 1
    /\ hist[1].call.name = McpName
    /\ hist[1].target = <<"mcpManager.callTool">>

\* ---- C34 ----
\* the consumer of the current chatStream call has received a fragment
StreamingBegan == payload.stream /\ yielded > 0 /\ tpc # "idle"

\* C34: within one chatStream call, once a fragment has been yielded no new
\* request is issued to the server: a failure after streaming began is
\* raised and never retried.
NoRequestAfterYield ==
    [][StreamingBegan => /\ requests' = requests
                         /\ tpc' \notin {"backoff", "request"}]_vars

\* a read failure that is not retryable is raised whatever was yielded
StreamResetRaised ==
    [][/\ StreamingBegan
       /\ tpc = "stream"
       /\ attempts' # attempts
       /\ attempts'[Len(attempts')] = NetError("ECONNRESET")
       => tpc' = "raised"]_vars

\* a second server stream is being read in a call that already yielded
ReplayedStream == StreamingBegan /\ requests > 1 /\ tpc = "stream"

\* ---- C35 ----
DoneChunks == Cardinality({n \in 1..Len(out) : out[n] = DoneChunk})

\* C35: a run of processUserMessageStream yields a token_count chunk first;
\* once it has ended it has yielded exactly one done chunk, as its last
\* chunk, and until then none, whether it ends by a final answer, at the
\* round cap, by cancellation at any checkpoint or by an error.
OneDoneLast ==
    mode = "stream" =>
        /\ out # <<>>
        /\ out[1] = TokenCountChunk
        /\ RunEnded => DoneChunks = 1 /\ out[Len(out)] = DoneChunk
        /\ ~RunEnded => DoneChunks = 0

\* C35 witness: a run cancelled inside the tool loop, after a tool result
OneDoneLastWitness ==
    /\ RunEnded /\ mode = "stream"
    /\ Len(out) >= 3
    /\ out[Len(out) - 1] = CancelNotice
    /\ out[Len(out) - 2].type = "tool_result"

\* a run ended by a failed request after a tool round
OneDoneAfterError ==
    /\ RunEnded /\ mode = "stream"
    /\ toolRounds > 0
    /\ out[Len(out) - 1] = ContentChunk(ErrorText(thrown))

\* a run ended by a final answer after a tool round
OneDoneAfterAnswer ==
    /\ RunEnded /\ mode = "stream"
    /\ toolRounds > 0
    /\ EndedByAnswer
    /\ out[Len(out) - 1] = TokenCountChunk

\* a run cancelled while the stream was read
OneDoneWhileStreaming ==
    /\ RunEnded /\ mode = "stream"
    /\ Len(out) >= 4
    /\ out[Len(out) - 1] = CancelNotice
    /\ out[Len(out) - 2] = TokenCountChunk
    /\ out[Len(out) - 3].type = "content"

\* ---- C36 ----
\* run r passes a cancellation checkpoint in this step
PassesCheckpoint(r) == InProgress(r) /\ overlap'[r].checks = overlap[r].checks + 1

\* C36: when runs of one agent overlap, a call of abortCurrentOperation made
\* while a run is in progress is observed by that run at its next
\* cancellation checkpoint, whatever the other runs did in between.
AbortObserved ==
    [][\A r \in OverlapRuns :
          PassesCheckpoint(r) /\ overlap[r].asked => overlap'[r].pc = "cancelled"]_vars

\* the same for a run during which no other run was in progress
AbortObservedAlone ==
    [][\A r \in OverlapRuns :
          PassesCheckpoint(r) /\ overlap[r].asked /\ ~overlap[r].shared
              => overlap'[r].pc = "cancelled"]_vars

\* a run in progress finds the field cleared by the end of another run
ControllerCleared ==
    \E r, q \in OverlapRuns :
        /\ InProgress(r)
        /\ overlap[q].pc \in {"finished", "cancelled"}
        /\ abortController = "null"

\* a run was cancelled on a request made while it ran alone
CancelledAlone ==
    \E r \in OverlapRuns : overlap[r].pc = "cancelled" /\ ~overlap[r].shared

\* while a run is in progress the agent holds a controller to abort
ControllerKept == (\E r \in OverlapRuns : InProgress(r)) => abortController # "null"

\* ---- C37 ----
\* C37: mcpInitialized eventually becomes true and stays true, whether the
\* initialization succeeds, finds no server or fails, and every
\* processUserMessage call that waits in waitForMCPInitialization
\* eventually proceeds.
McpNeverBlocks ==
    /\ <>[]mcpInitialized
    /\ \A c \in McpCalls : (waiting[c].pc # "none") ~> (waiting[c].pc = "proceeded")

\* C37 witness: a call that found mcpInitialized false has proceeded after
\* the connection to the servers failed
McpNeverBlocksWitness ==
    \E c \in McpCalls :
        /\ waiting[c].pc = "proceeded"
        /\ waiting[c].slept
        /\ mcp = "failed"

\* a call proceeded at once: no server was configured
McpNoServers ==
    \E c \in McpCalls :
        /\ waiting[c].pc = "proceeded"
        /\ ~waiting[c].slept
        /\ mcp = "ready"

\* mcpInitialized is set exactly when initializeMCP has ended
McpSetAtEnd == mcpInitialized <=> mcp \in {"ready", "failed"}

\* ---- C38 ----
\* the direct commands entered since the run was submitted
RECURSIVE SinceSubmit(_)
SinceSubmit(events) ==
    IF events = <<>> \/ events[Len(events)] = "submit" THEN <<>>
    ELSE Append(SinceSubmit(SubSeq(events, 1, Len(events) - 1)), events[Len(events)])

\* C38: after any sequence of Shift+Tab toggles and direct commands, the
\* autoEditEnabled state of the UI equals the allOperations session flag of
\* the confirmation service.
AutoEditInSync == autoEditEnabled = sessionFlags.allOperations

\* the same as long as /clear has not been entered
AutoEditInSyncNoClear ==
    (\A n \in 1..Len(uiEvents) : uiEvents[n] # "/clear")
        => autoEditEnabled = sessionFlags.allOperations

\* auto-edit was switched on and the flags were then reset by /clear
AutoEditStale ==
    /\ autoEditEnabled
    /\ ~sessionFlags.allOperations
    /\ uiEvents # <<>> /\ uiEvents[Len(uiEvents)] = "/clear"

\* ---- C39 ----
\* the text of the entries made from content chunks, in order
RECURSIVE ShownText(_)
ShownText(entries) ==
    IF entries = <<>> THEN <<>>
    ELSE ShownText(SubSeq(entries, 1, Len(entries) - 1))
            \o (IF entries[Len(entries)].streamed THEN entries[Len(entries)].content
                ELSE <<>>)

HistoryKept == \A n \in 1..Len(uiEvents) : uiEvents[n] # "/clear"

\* C39: the text shown in the chat history for the assistant equals the
\* concatenation, in order, of the content chunks the hook has handled, also
\* when a direct command such as /help appends an entry while the run is
\* streaming (the history not being cleared).
NoChunkDropped == mode = "stream" /\ HistoryKept => ShownText(chatHistory) = uiConsumed

\* the same for a run during which no direct command was entered
NoChunkDroppedQuiet ==
    mode = "stream" /\ HistoryKept /\ SinceSubmit(uiEvents) = <<>>
        => ShownText(chatHistory) = uiConsumed

\* two content chunks of one round were shown as one entry
TwoChunksShown ==
    /\ mode = "stream" /\ SinceSubmit(uiEvents) = <<>>
    /\ Len(uiConsumed) = 2
    /\ \E n \in 1..Len(chatHistory) : chatHistory[n].content = uiConsumed

\* a content chunk was handled after /help and is not in the history
ChunkDroppedAfterHelp ==
    /\ mode = "stream" /\ SinceSubmit(uiEvents) = <<"/help">>
    /\ Len(uiConsumed) = 2
    /\ Len(ShownText(chatHistory)) = 1

\* ---- C40 ----
BothRan == Len(summary) = 2
SameRequests == BothRan => summary[1].requests = summary[2].requests
SameDispatches == BothRan => summary[1].dispatched = summary[2].dispatched
SameMessages == BothRan => summary[1].appended = summary[2].appended

\* C40: on the same model responses and tool results, with no cancellation,
\* no transport error and no compaction, a run of processUserMessageStream
\* and a run of processUserMessage append the same messages to the log,
\* dispatch the same tools in the same order and issue the same number of
\* requests.
LoopsEquivalent == SameMessages /\ SameDispatches /\ SameRequests

\* role, content and tool_call_id of a message, and its invocations
Said(msgs) ==
    [n \in 1..Len(msgs) |->
        <<msgs[n].role, msgs[n].content, msgs[n].tool_calls.items, msgs[n].tool_call_id>>]

\* the two runs append messages of the same roles, contents and invocations
SameSaid == BothRan => Said(summary[1].appended) = Said(summary[2].appended)

\* below the round cap the two runs issue the same number of requests
SameRequestsBelowCap == BothRan /\ script < maxToolRounds => summary[1].requests = summary[2].requests

\* no compaction: the log only grows
PairLogGrows == [][IsPrefixOf(messages, messages')]_vars

\* both runs executed 50 rounds and issued 50 and 51 requests
PairAtCap ==
    /\ BothRan
    /\ Len(summary[1].dispatched) = maxToolRounds * Len(CapCalls)
    /\ {summary[1].requests, summary[2].requests} = {maxToolRounds, maxToolRounds + 1}

\* both runs ended on a final answer after two tool rounds
PairAnswered ==
    /\ BothRan /\ script = 2
    /\ summary[1].requests = 3 /\ summary[2].requests = 3

====
